---- MODULE Spec2Model ----
(***************************************************************************)
(* Host-side supervisor of the brood nest board (brood_hostside/libabc.py, *)
(* libbase.py, runtime_tools/abc_run.py) as a state machine.               *)
(*                                                                         *)
(* The handle is single-threaded.  Its methods are modelled as procedures  *)
(* on an explicit call stack: every step of a procedure runs the code up   *)
(* to its next call, wire exchange or sleep.  A wire exchange             *)
(* (self._pyb.exec) is one step whose reply and duration the board        *)
(* chooses.  A Python exception is the variable exc: a raising procedure   *)
(* pops its frame and the caller either handles exc (its except clause)    *)
(* or is popped in turn (Unwind).                                          *)
(*                                                                         *)
(* Text (a request, a reply) is a sequence of lexemes, each a literal      *)
(* piece of the text, cut so that every literal the code searches for      *)
(* ("GC: total", "GC: ", "\r\n", "$", "*", ",", " ") is a lexeme or a      *)
(* sequence of lexemes.  Time is counted in ticks of 100 ms.               *)
(***************************************************************************)
EXTENDS Integers, Sequences, FiniteSets, TLC

VARIABLES
    stack,                  \* call stack of the handle's thread, innermost frame last
    exc,                    \* the exception in flight, "none" when there is none
    ret,                    \* value returned by the procedure that returned last
    now,                    \* wall clock (ticks)
    alarm,                  \* pending SIGALRM of func_timeout: None or Some(due time)
    upy_status,             \* self.upy_status
    heaters_status,         \* self.heaters_status
    i,                      \* self.i, the iteration index
    cnt_caught_exceptions,  \* self.cnt_caught_exceptions
    cnt_toolong_loops,      \* self.cnt_toolong_loops
    cnt_dumped_points,      \* self.cnt_dumped_points
    t_start_iter,           \* self.t_start_iter
    t_end,                  \* self.t_end, the next deadline
    last_pyb_resp,          \* self._last_pyb_resp
    last_pyb_fields,        \* self._last_pyb_fields
    last_pyb_ntries,        \* self._last_pyb_ntries
    mem_usage,              \* self._mem_usage
    newdata2csv,            \* self._newdata2csv_<class>, by sensor class
    htr_up_to_date,         \* self.last_htr_data.up_to_date
    cntr_wrn,               \* self._cntr_wrn_<class>: BackoffCtr by sensor class
    cfg,                    \* the configuration read by read_cfg
    board,                  \* what the board can answer: replies by command, durations
    calls,                  \* number of calls the caller of the handle has made
    cur,                    \* the caller's call in progress (or completed last)
    obs                     \* what was observed on the wire and of the calls made

vars == <<stack, exc, ret, now, alarm, upy_status, heaters_status, i,
          cnt_caught_exceptions, cnt_toolong_loops, cnt_dumped_points,
          t_start_iter, t_end, last_pyb_resp, last_pyb_fields, last_pyb_ntries,
          mem_usage, newdata2csv, htr_up_to_date, cntr_wrn, cfg, board,
          calls, cur, obs>>

-----------------------------------------------------------------------------
(* Python values *)

None == <<>>
Some(v) == <<v>>
IsNone(o) == Len(o) = 0
Val(o) == o[1]

Min(S) == CHOOSE x \in S : \A y \in S : x <= y
Max(S) == CHOOSE x \in S : \A y \in S : x >= y

-----------------------------------------------------------------------------
(* Text *)

CRLF == "\r\n"

\* the byte count of a lexeme; "@I<n>@" stands for n integers of four digits
\* separated by commas
LexLen(w) ==
    CASE w = "@I64@" -> 319
      [] w = "@I63@" -> 314
      [] OTHER -> Len(w)

\* len(resp): the byte count of a text
RECURSIVE ByteLen(_)
ByteLen(text) ==
    IF text = <<>> THEN 0 ELSE LexLen(Head(text)) + ByteLen(Tail(text))

\* str.replace(a, b) for a one-lexeme literal a and a text b
RECURSIVE Replace(_, _, _)
Replace(text, a, b) ==
    IF text = <<>> THEN <<>>
    ELSE (IF Head(text) = a THEN b ELSE <<Head(text)>>) \o Replace(Tail(text), a, b)

\* `pat in text`
Contains(text, pat) ==
    \E k \in 1..(Len(text) - Len(pat) + 1) : SubSeq(text, k, k + Len(pat) - 1) = pat

\* str.rstrip('\r\n')
RECURSIVE RStripCRLF(_)
RStripCRLF(text) ==
    IF text # <<>> /\ text[Len(text)] = CRLF
    THEN RStripCRLF(SubSeq(text, 1, Len(text) - 1))
    ELSE text

\* str.split(): the maximal runs of lexemes that are not white space
IsSpace(w) == w \in {" ", CRLF}

RECURSIVE SplitFrom(_, _, _)
SplitFrom(text, k, field) ==
    IF k > Len(text) THEN (IF field = <<>> THEN <<>> ELSE <<field>>)
    ELSE IF IsSpace(text[k])
         THEN (IF field = <<>> THEN <<>> ELSE <<field>>) \o SplitFrom(text, k + 1, <<>>)
         ELSE SplitFrom(text, k + 1, Append(field, text[k]))

Split(text) == SplitFrom(text, 1, <<>>)

\* re.findall(r'\$(.+?)\*', text): leftmost, non-overlapping, non-greedy; the
\* group holds at least one character, so the lexeme after "$" is never the
\* closing "*", and "." matches no newline, so no group holds a line end
Closes(text, a, b) ==
    /\ text[a] = "$" /\ b >= a + 2 /\ text[b] = "*"
    /\ \A c \in (a + 1)..(b - 1) : text[c] # CRLF

\* a mistaken, greedy tokenizer: each group runs to the last "*" it can
RECURSIVE FindAllFromGreedy(_, _)
FindAllFromGreedy(text, k) ==
    LET opens == {a \in k..Len(text) : \E b \in 1..Len(text) : Closes(text, a, b)}
    IN  IF opens = {} THEN <<>>
        ELSE LET a == Min(opens)
                 b == Max({c \in 1..Len(text) : Closes(text, a, c)})
             IN  <<SubSeq(text, a + 1, b - 1)>> \o FindAllFromGreedy(text, b + 1)

RECURSIVE FindAllFrom(_, _)
FindAllFrom(text, k) ==
    LET opens == {a \in k..Len(text) : \E b \in 1..Len(text) : Closes(text, a, b)}
    IN  IF opens = {} THEN <<>>
        ELSE LET a == Min(opens)
                 b == Min({c \in 1..Len(text) : Closes(text, a, c)})
             IN  <<SubSeq(text, a + 1, b - 1)>> \o FindAllFrom(text, b + 1)

FindAll(text) == FindAllFrom(text, 1)

\* The integer literals of the modelled replies and int() of each
IntLexemes == {"0", "1", "2", "1000", "9000"}

IntValue(w) ==
    CASE w = "0" -> 0
      [] w = "1" -> 1
      [] w = "2" -> 2
      [] w = "1000" -> 1000
      [] w = "9000" -> 9000

\* int(e) succeeds on a field (replies hold no two adjacent number lexemes)
IsInt(field) == Len(field) = 1 /\ field[1] \in IntLexemes

-----------------------------------------------------------------------------
(* Commands *)

Cmd(f, x, idx) == [f |-> f, x |-> x, idx |-> idx]

CmdMemStatus == Cmd("print(gc.mem_free(), gc.mem_alloc())", None, None)
CmdGcCollect == Cmd("gc.collect()", None, None)
\* the imports and settings upy_ini runs once the session is open
ImportCmds ==
    <<"import sensors as s", "import heaters as h", "import tmp117 as t",
      "import host_format as hf", "import gc", "s.print_ms(False)">>

-----------------------------------------------------------------------------
(* Exceptions *)

Garbled == "ABCGarbledRespError"
TooShort == "ABCTooShortRespError"
TimedOut == "TimedOutException"
ValueErr == "ValueError"
ZeroDiv == "ZeroDivisionError"
IndexErr == "IndexError"
TypeErr == "TypeError"
AttributeErr == "AttributeError"
KeyboardInt == "KeyboardInterrupt"

\* the subclasses of Exception the handle raises
Exceptions ==
    {Garbled, TooShort, TimedOut, ValueErr, ZeroDiv, IndexErr, TypeErr, AttributeErr}

-----------------------------------------------------------------------------
(* Memory watermark arithmetic.  Percentages are fixed-point numbers in    *)
(* units of 0.001 %: 80.0 is 80000.                                        *)

\* round(alloc / float(total) * 100, 2): to the nearest 0.01 %, ties to even
UsedPct(alloc, total) ==
    LET q == (alloc * 10000) \div total
        r == (alloc * 10000) % total
        c == IF 2 * r > total \/ (2 * r = total /\ q % 2 = 1) THEN q + 1 ELSE q
    IN  c * 10

\* a comparison that also collects exactly at the watermark
AtOrAboveWatermark(pct, watermark) == pct >= watermark

\* `pct > watermark`
AboveWatermark(pct, watermark) == pct > watermark

\* the marker of a reply interleaved with a collector notice
GcMarker == <<"GC:", " ", "total">>

\* `not "GC: total" in _resp`
IsClean(resp) == ~Contains(resp, GcMarker)

-----------------------------------------------------------------------------
(* Bounds of the model *)

MaxCalls == 2       \* calls the caller makes in one run
MaxRetries == 3     \* largest `retries` the caller passes to safe_exec_abc
MaxHits == 1300     \* hit() calls on one BackoffCtr between two resets

\* @func_timeout(3): the alarm is due 3 s (30 ticks) after upy_ini starts
AlarmTicks == 30

-----------------------------------------------------------------------------
(* Call stack *)

Frame(pc, l) == [pc |-> pc, l |-> l]
Top == stack[Len(stack)]
Pop == SubSeq(stack, 1, Len(stack) - 1)
Running(label) == Len(stack) > 0 /\ exc = "none" /\ Top.pc = label
Jump(label, l) == [stack EXCEPT ![Len(stack)] = Frame(label, l)]
CallFrom(label, l, callee) == Append(Jump(label, l), callee)
Idle == Len(stack) = 0

\* lines 59-60 and 68: SIGALRM arrives while the thread is blocked in a wire
\* exchange or a sleep that would last d ticks
Interrupted(d) == ~IsNone(alarm) /\ now + d >= Val(alarm)

FrSafeExec(cmd, retries, minlen, nfields, watermark) ==
    Frame("safe_exec_abc",
          [cmd |-> cmd, retries |-> retries, minlen |-> minlen, nfields |-> nfields,
           watermark |-> watermark, n_tries |-> 0, sent |-> 0, dirty |-> 0,
           last |-> None])
FrCheckMem(watermark) ==
    Frame("check_mem_maybe_gcollect",
          [watermark |-> watermark, gc_sent |-> 0, mem |-> "none", free |-> 0,
           alloc |-> 0])
FrGetMemStatus == Frame("get_mem_status", <<>>)
FrUpyIni == Frame("upy_ini", [k |-> 0, j |-> 1])

\* the labels of each procedure
SafeExecLabels == {"safe_exec_abc", "safe_exec_abc.try"}
CheckMemLabels == {"check_mem_maybe_gcollect", "check_mem_maybe_gcollect.m",
                   "check_mem_maybe_gcollect.gc"}
UpyIniLabels == {"upy_ini", "upy_ini.enter", "upy_ini.import", "upy_ini.imported"}

\* the except clauses: the exceptions a frame at `label` handles itself
CudLabels == {"check_update_datetime.delta", "check_update_datetime.date",
              "check_update_datetime.time", "check_update_datetime.msg"}
LoopLabels == {"loop", "loop.sensors", "loop.fetch", "loop.clock", "loop.consume"}
\* the run script inside its try block, abc_run.py lines 20-41
MainTryLabels == {"main", "main.conn", "main.ini", "main.readback", "main.while",
                  "main.loop"}

Handles(label) ==
    CASE label = "check_mem_maybe_gcollect.m" -> {Garbled}
      [] label = "loop.fetch" -> {TooShort, Garbled}
      [] label \in CudLabels -> {Garbled}
      [] label = "get_datetime.resp" -> {TimedOut}
      [] label = "get_heaters.st" -> {Garbled}
      [] label \in MainTryLabels -> Exceptions \cup {KeyboardInt}
      [] OTHER -> {}

-----------------------------------------------------------------------------
(* Observations: history of the wire and of the finished calls *)

NoSafeExec ==
    [outcome |-> "none", cmd |-> CmdGcCollect, retries |-> 0, minlen |-> None,
     nfields |-> None, watermark |-> None, sent |-> 0, dirty |-> 0,
     last |-> None, value |-> <<>>]
NoCheckMem ==
    [outcome |-> "none", watermark |-> 0, gc_sent |-> 0, value |-> FALSE,
     mem |-> "none", free |-> 0, alloc |-> 0]

\* one loop() iteration: the classes whose fetch was started and those whose
\* exception was caught, whether the clock check was started, how it ended,
\* the counter of caught exceptions and the iteration index it started with
NoLoop ==
    [fetched |-> <<>>, caught |-> <<>>, clock |-> FALSE, clock_caught |-> FALSE,
     cnt0 |-> 0, i0 |-> 0, ended |-> "none"]
\* one finished consume_idle_time: the time and the deadline it started
\* with, what it added to the overrun counter, its sleep, its wake time
NoConsume ==
    [done |-> FALSE, at |-> 0, deadline |-> 0, counted |-> 0, slept |-> 0,
     wake |-> 0]

IsHeaterCmd(cmd) == cmd.f \in {"h.activate", "h.objective"}
IsDeactivate(cmd) == cmd.f = "h.activate" /\ cmd.x = Some(0) /\ ~IsNone(cmd.idx)

\* time.sleep(0.1): one tick between two individual deactivations
DeactDelay == 1

\* a command is put on the wire at time t
ObsSend(o, cmd, t) ==
    [o EXCEPT
       !.wire = IF ~IsHeaterCmd(cmd) \/ (@ # <<>> /\ @[Len(@)] = cmd) THEN @
                ELSE Append(@, cmd),
       !.resent = @ \/ (IsHeaterCmd(cmd) /\ o.wire # <<>> /\ o.wire[Len(o.wire)] = cmd),
       !.spacing_ok = @ /\ (IsDeactivate(cmd) /\ ~IsNone(o.last_deact)
                               => t - Val(o.last_deact) >= DeactDelay),
       !.call_spaced = @ /\ (IsDeactivate(cmd) /\ ~IsNone(o.call_deact)
                                => t - Val(o.call_deact) >= DeactDelay),
       !.last_deact = IF IsDeactivate(cmd) THEN Some(t) ELSE @,
       !.call_deact = IF IsDeactivate(cmd) THEN Some(t) ELSE @,
       !.ck.wire = IF cmd.f \in {"s.set_date", "s.set_time"} THEN Append(@, cmd.f)
                   ELSE @]

\* a frame is left, by a return (outcome "return") or by an exception
ObsLeave(o, f, outcome, value) ==
    IF f.pc \in SafeExecLabels
    THEN [o EXCEPT !.se = [outcome |-> outcome, cmd |-> f.l.cmd,
                           retries |-> f.l.retries, minlen |-> f.l.minlen,
                           nfields |-> f.l.nfields, watermark |-> f.l.watermark,
                           sent |-> f.l.sent, dirty |-> f.l.dirty,
                           last |-> f.l.last,
                           value |-> IF outcome = "return" THEN value ELSE <<>>]]
    ELSE IF f.pc \in CheckMemLabels
    THEN [o EXCEPT !.cm = [outcome |-> outcome, watermark |-> f.l.watermark,
                           gc_sent |-> f.l.gc_sent,
                           value |-> IF outcome = "return" THEN value ELSE FALSE,
                           mem |-> f.l.mem, free |-> f.l.free,
                           alloc |-> f.l.alloc]]
    ELSE IF f.pc \in LoopLabels
    THEN [o EXCEPT !.lp.ended = outcome]
    ELSE o

\* the clock check of the caller's current call: the difference
\* compare_datetime returned, whether the get_datetime it called caught a
\* timeout, the set-date and set-time commands sent
NoClock == [delta |-> None, timed_out |-> FALSE, wire |-> <<>>]

\* the dump_point_to_file calls of the caller's current call: how many,
\* how many records reached the file, and the two counters at its start
NoDump == [calls |-> 0, appended |-> 0, dumped0 |-> 0, caught0 |-> 0]

\* a BackoffCtr used on its own: the hit() calls since it was made or
\* reset, those since the last one that returned True, whether it was reset
NoBackoff == [k |-> 0, since |-> 0, was_reset |-> FALSE]

\* the run script: whether stop() ran and the counts it reported, the
\* exceptions that left loop() and were passed over, the one re-raised
\* prepare_initial_loop_timer: the handle's counters and sample flags
\* when it was called, the time it read
NoPrime == [counters0 |-> <<0, 0, 0, 0>>, samples0 |-> <<>>, at |-> 0]

\* the run script: whether stop() ran and the counts it reported, the
\* exceptions that left loop() and were passed over, the one re-raised,
\* whether an iteration began though the one before had not slept
NoRun == [stopped |-> FALSE, report |-> <<>>, harmless |-> {}, fatal |-> "none",
          interrupted |-> FALSE, deact_raised |-> FALSE, unslept |-> FALSE]

ObsInit ==
    [se |-> NoSafeExec, cm |-> NoCheckMem, wire |-> <<>>, resent |-> FALSE,
     spacing_ok |-> TRUE, last_deact |-> None, call_spaced |-> TRUE,
     call_deact |-> None, heaters_status0 |-> FALSE, h_t_obj |-> None,
     lp |-> NoLoop, co |-> NoConsume, ck |-> NoClock, dp |-> NoDump,
     bk |-> NoBackoff, ini_timed_out |-> FALSE, run |-> NoRun,
     pt |-> NoPrime, mem0 |-> <<>>]

\* the caller starts a call: the per-call history starts afresh
ObsCall(o) ==
    [o EXCEPT !.se = NoSafeExec, !.cm = NoCheckMem, !.wire = <<>>, !.resent = FALSE,
              !.call_spaced = TRUE, !.call_deact = None,
              !.heaters_status0 = heaters_status, !.h_t_obj = None,
              !.lp = NoLoop, !.co = NoConsume, !.ck = NoClock, !.ini_timed_out = FALSE,
              !.dp = [NoDump EXCEPT !.dumped0 = cnt_dumped_points,
                                    !.caught0 = cnt_caught_exceptions]]

-----------------------------------------------------------------------------
(* Variable groups *)

ctl == <<stack, exc, ret>>
counters == <<i, cnt_caught_exceptions, cnt_toolong_loops, cnt_dumped_points>>
timer == <<t_start_iter, t_end>>
dbg == <<last_pyb_resp, last_pyb_fields, last_pyb_ntries>>
samples == <<newdata2csv, htr_up_to_date, cntr_wrn>>
caller == <<cfg, board, calls, cur>>

-----------------------------------------------------------------------------
(* safe_exec_abc: the protocol executor *)

\* a gate that lets a reply with too many fields through
TooShortGateFewerOnly(ml, nf, minlen, nfields) ==
    \/ ~IsNone(minlen) /\ ml < Val(minlen)
    \/ ~IsNone(nfields) /\ Val(nfields) > nf

\* lines 1509-1514: the length gate and the field-count gate
TooShortGate(ml, nf, minlen, nfields) ==
    \/ ~IsNone(minlen) /\ ml < Val(minlen)
    \/ ~IsNone(nfields) /\ Val(nfields) # nf

\* line 1465: the attempt count kept once the loop has ended on a clean reply
\* after n_tries contaminated ones
TriesRecorded(n_tries) == n_tries

\* lines 1442-1447: the watermark check comes first
SafeExecWatermark ==
    /\ Running("safe_exec_abc")
    /\ stack' = IF IsNone(Top.l.watermark)
                THEN Jump("safe_exec_abc.try", Top.l)
                ELSE CallFrom("safe_exec_abc.try", Top.l,
                              FrCheckMem(Val(Top.l.watermark)))
    /\ UNCHANGED <<exc, ret, now, alarm, upy_status, heaters_status, counters,
                   timer, dbg, mem_usage, samples, caller, obs>>

\* lines 1449-1516: one attempt, and what follows the loop when it ends
SafeExecTry ==
    /\ Running("safe_exec_abc.try")
    /\ \E reply \in board.replies[Top.l.cmd.f], d \in board.durations[Top.l.cmd.f] :
         LET ml == ByteLen(reply)
             resp == Replace(reply, CRLF, <<",">>)
             f == [Top.l EXCEPT !.sent = @ + 1,
                                !.dirty = IF IsClean(resp) THEN @ ELSE @ + 1,
                                !.last = Some(reply)]
             m == FindAll(resp)
             sent == ObsSend(obs, f.cmd, now)
             left == Frame(Top.pc, f)
         IN  IF Interrupted(d)
             THEN /\ now' = Val(alarm)
                  /\ alarm' = None
                  /\ exc' = TimedOut
                  /\ stack' = Jump(Top.pc, [Top.l EXCEPT !.sent = @ + 1])
                  /\ obs' = sent
                  /\ UNCHANGED <<ret, dbg>>
             ELSE
             /\ now' = now + d
             /\ alarm' = alarm
             /\ IF IsClean(resp)
                THEN /\ last_pyb_ntries' = TriesRecorded(f.n_tries)
                     /\ last_pyb_resp' = resp
                     /\ last_pyb_fields' = m
                     /\ stack' = Pop
                     /\ IF TooShortGate(ml, Len(m), f.minlen, f.nfields)
                        THEN /\ exc' = TooShort
                             /\ ret' = ret
                             /\ obs' = ObsLeave(sent, left, TooShort, reply)
                        ELSE /\ exc' = exc
                             /\ ret' = reply
                             /\ obs' = ObsLeave(sent, left, "return", reply)
                ELSE IF f.n_tries + 1 < f.retries
                THEN /\ stack' = Jump("safe_exec_abc.try", [f EXCEPT !.n_tries = @ + 1])
                     /\ obs' = sent
                     /\ UNCHANGED <<exc, ret, dbg>>
                ELSE /\ last_pyb_ntries' = f.n_tries + 1
                     /\ stack' = Pop
                     /\ exc' = Garbled
                     /\ obs' = ObsLeave(sent, left, Garbled, reply)
                     /\ UNCHANGED <<ret, last_pyb_resp, last_pyb_fields>>
    /\ UNCHANGED <<upy_status, heaters_status, counters, timer, mem_usage,
                   samples, caller>>

-----------------------------------------------------------------------------
(* get_mem_status, request_garbage_collection, check_mem_maybe_gcollect *)

\* lines 1355-1357
GetMemStatusCall ==
    /\ Running("get_mem_status")
    /\ stack' = CallFrom("get_mem_status.resp", Top.l,
                         FrSafeExec(CmdMemStatus, 2, None, None, None))
    /\ UNCHANGED <<exc, ret, now, alarm, upy_status, heaters_status, counters,
                   timer, dbg, mem_usage, samples, caller, obs>>

\* lines 1358-1372
GetMemStatusParse ==
    /\ Running("get_mem_status.resp")
    /\ LET elems == Split(RStripCRLF(ret))
           free == IntValue(elems[1][1])
           alloc == IntValue(elems[2][1])
           m == [free |-> free, alloc |-> alloc, total |-> free + alloc,
                 pct |-> UsedPct(alloc, free + alloc)]
       IN  /\ stack' = Pop
           /\ IF Len(elems) # 2
              THEN exc' = Garbled /\ UNCHANGED <<ret, mem_usage>>
              ELSE IF ~(IsInt(elems[1]) /\ IsInt(elems[2]))
              THEN exc' = ValueErr /\ UNCHANGED <<ret, mem_usage>>
              ELSE IF free + alloc = 0
              THEN exc' = ZeroDiv /\ UNCHANGED <<ret, mem_usage>>
              ELSE exc' = exc /\ ret' = m /\ mem_usage' = m
    /\ UNCHANGED <<now, alarm, upy_status, heaters_status, counters, timer, dbg,
                   samples, caller, obs>>

\* line 1408
CheckMemCall ==
    /\ Running("check_mem_maybe_gcollect")
    /\ stack' = CallFrom("check_mem_maybe_gcollect.m", Top.l, FrGetMemStatus)
    /\ UNCHANGED <<exc, ret, now, alarm, upy_status, heaters_status, counters,
                   timer, dbg, mem_usage, samples, caller, obs>>

\* lines 1409-1412: the except clause
CheckMemGarbled ==
    /\ Len(stack) > 0 /\ Top.pc = "check_mem_maybe_gcollect.m" /\ exc = Garbled
    /\ stack' = Pop
    /\ exc' = "none"
    /\ ret' = FALSE
    /\ obs' = ObsLeave(obs, Frame(Top.pc, [Top.l EXCEPT !.mem = Garbled]),
                       "return", FALSE)
    /\ UNCHANGED <<now, alarm, upy_status, heaters_status, counters, timer, dbg,
                   mem_usage, samples, caller>>

\* lines 1414-1420
CheckMemDecide ==
    /\ Running("check_mem_maybe_gcollect.m")
    /\ LET f == [Top.l EXCEPT !.mem = "ok", !.free = ret.free, !.alloc = ret.alloc]
       IN  IF AboveWatermark(ret.pct, f.watermark)
           THEN /\ stack' = Jump("check_mem_maybe_gcollect.gc", f)
                /\ UNCHANGED <<ret, obs>>
           ELSE /\ stack' = Pop
                /\ ret' = FALSE
                /\ obs' = ObsLeave(obs, Frame(Top.pc, f), "return", FALSE)
    /\ UNCHANGED <<exc, now, alarm, upy_status, heaters_status, counters, timer,
                   dbg, mem_usage, samples, caller>>

\* lines 1374-1397 and 1417-1418: gc.collect() goes straight to the transport
CheckMemCollect ==
    /\ Running("check_mem_maybe_gcollect.gc")
    /\ \E reply \in board.replies[CmdGcCollect.f],
          d \in board.durations[CmdGcCollect.f] :
         LET f == [Top.l EXCEPT !.gc_sent = @ + 1]
             sent == ObsSend(obs, CmdGcCollect, now)
         IN  IF Interrupted(d)
             THEN /\ now' = Val(alarm)
                  /\ alarm' = None
                  /\ exc' = TimedOut
                  /\ stack' = Jump(Top.pc, f)
                  /\ obs' = sent
                  /\ ret' = ret
             ELSE /\ now' = now + d
                  /\ stack' = Pop
                  /\ ret' = TRUE
                  /\ obs' = ObsLeave(sent, Frame(Top.pc, f), "return", TRUE)
                  /\ UNCHANGED <<exc, alarm>>
    /\ UNCHANGED <<upy_status, heaters_status, counters, timer, dbg, mem_usage,
                   samples, caller>>

-----------------------------------------------------------------------------
(* upy_ini under func_timeout(3) *)

\* lines 68-69 and 1315-1317: the alarm is set, then the function runs
UpyIniStart ==
    /\ Running("upy_ini")
    /\ alarm' = Some(now + AlarmTicks)
    /\ stack' = Jump("upy_ini.enter", Top.l)
    /\ UNCHANGED <<exc, ret, now, upy_status, heaters_status, counters, timer, dbg,
                   mem_usage, samples, caller, obs>>

\* lines 1320-1331: up to three attempts to enter the raw REPL; an attempt
\* that blocks is ended by the alarm, whose exception is caught here
UpyIniEnter ==
    /\ Running("upy_ini.enter")
    /\ \E r \in board.enter :
         LET again == IF Top.l.k + 1 < 3
                      THEN Jump("upy_ini.enter", [Top.l EXCEPT !.k = @ + 1])
                      ELSE Jump("upy_ini.import", Top.l)
         IN  CASE r = "ok" ->
                    /\ upy_status' = TRUE
                    /\ stack' = Jump("upy_ini.import", Top.l)
                    /\ UNCHANGED <<now, alarm, obs>>
               [] r = "error" ->
                    /\ stack' = again
                    /\ UNCHANGED <<now, alarm, upy_status, obs>>
               [] r = "blocks" ->
                    /\ ~IsNone(alarm)
                    /\ now' = Max({now, Val(alarm)})
                    /\ alarm' = None
                    /\ stack' = again
                    /\ obs' = [obs EXCEPT !.ini_timed_out = TRUE]
                    /\ UNCHANGED upy_status
    /\ UNCHANGED <<exc, ret, heaters_status, counters, timer, dbg, mem_usage,
                   samples, caller>>

\* lines 1335-1343 and 71-72: the imports, then the alarm is cleared
UpyIniImport ==
    /\ Running("upy_ini.import")
    /\ IF Top.l.j <= Len(ImportCmds)
       THEN /\ stack' = CallFrom("upy_ini.import", [Top.l EXCEPT !.j = @ + 1],
                                 FrSafeExec(Cmd(ImportCmds[Top.l.j], None, None),
                                            1, Some(0), None, None))
            /\ UNCHANGED <<ret, alarm>>
       ELSE /\ stack' = Pop
            /\ ret' = "pyb"
            /\ alarm' = None
    /\ UNCHANGED <<exc, now, upy_status, heaters_status, counters, timer, dbg,
                   mem_usage, samples, caller, obs>>

\* an exception the innermost frame does not handle leaves that frame
Unwind ==
    /\ Len(stack) > 0 /\ exc # "none" /\ exc \notin Handles(Top.pc)
    /\ stack' = Pop
    /\ obs' = ObsLeave(obs, Top, exc, <<>>)
    /\ UNCHANGED <<exc, ret, now, alarm, upy_status, heaters_status, counters,
                   timer, dbg, mem_usage, samples, caller>>

-----------------------------------------------------------------------------
(* Sensor replies.  hf.callformatprint prints "$" f1 f2 .. "*" with every  *)
(* field as "$" text "*".  A date, a list of numbers and a validity word   *)
(* are one lexeme each; what int(), float(), split(',') and strptime make  *)
(* of such a lexeme is tabulated here.                                     *)

Classes == <<"tmp", "pwr", "rht", "co2", "htr">>

DateLex == "(2021, 8, 13),(10, 14, 47)"
Ints64 == "@I64@"
Ints63 == "@I63@"
Nums10 == "1,1,1,1,1,1,1,1,1,1"
Nums9 == "1,1,1,1,1,1,1,1,1"
Zeros10 == "0,0,0,0,0,0,0,0,0,0"
NumLex == "57.9614,"
TrueLex == "True,"
FalseLex == "False,"

\* len(text.split(',')) of a list of numbers, 0 for anything else
ValueCount(w) ==
    CASE w = Ints64 -> 64
      [] w = Ints63 -> 63
      [] w \in {Nums10, Zeros10} -> 10
      [] w = Nums9 -> 9
      [] w \in {NumLex} \cup IntLexemes -> 1
      [] OTHER -> 0

\* the number at every index of a list of equal numbers
ElementOf(w) == IF w = Zeros10 THEN 0 ELSE 1

\* every element of field.split(',') converts with int() / float()
IsNumbers(field) == Len(field) = 1 /\ ValueCount(field[1]) > 0
NumbersIn(field) == ValueCount(field[1])

\* datetime.strptime(t_str, "$(%Y, %m, %d),(%H, %M, %S)") succeeds
IsDate(field) == field = <<"$", DateLex>>

\* _parse_valid, lines 81-91: True, False or None
ParseValid(m) ==
    LET v == m[Len(m)]
    IN  IF v = <<TrueLex>> THEN Some(TRUE)
        ELSE IF v = <<FalseLex>> THEN Some(FALSE) ELSE None

\* text[:-1] for a text that ends with a one-character lexeme
DropLast(text) == IF text = <<>> THEN <<>> ELSE SubSeq(text, 1, Len(text) - 1)

\* hf.callformatprint of the fields
RECURSIVE Fields(_)
Fields(fs) == IF fs = <<>> THEN <<>> ELSE <<"$">> \o Head(fs) \o <<"*">> \o Fields(Tail(fs))
Formatted(fs) == <<"$">> \o Fields(fs) \o <<"*", CRLF>>

SensorCmd(c) ==
    CASE c = "tmp" -> Cmd("hf.callformatprint(s.get_int_temperature)", None, None)
      [] c = "pwr" -> Cmd("hf.callformatprint(s.get_power_ui)", None, None)
      [] c = "rht" -> Cmd("hf.callformatprint(s.get_rht)", None, None)
      [] c = "co2" -> Cmd("hf.callformatprint(s.get_co2_rht)", None, None)
      [] c = "htr" -> Cmd("hf.callformatprint(h.status)", None, None)

\* the minlen and nfields each getter passes to safe_exec_abc
SensorMinLen(c) ==
    CASE c = "tmp" -> Some(286)
      [] c = "pwr" -> Some(39)
      [] c = "rht" -> Some(44)
      [] OTHER -> None
SensorNFields(c) ==
    CASE c = "tmp" -> Some(3)
      [] c = "pwr" -> Some(6)
      [] c = "rht" -> Some(5)
      [] OTHER -> None

\* the marker each getter looks for once more: "GC: " or "GC: total"
SensorMarker(c) == IF c = "rht" THEN GcMarker ELSE <<"GC:", " ">>

\* the text each getter parses: '\r\n' -> ',' and, but for h.status, [:-1]
SensorText(c, reply) ==
    LET t == Replace(reply, CRLF, <<",">>)
    IN  IF c = "htr" THEN t ELSE DropLast(t)

\* A well-formed reply of each class
GoodReply(c) ==
    CASE c = "tmp" -> Formatted(<<<<DateLex>>, <<Ints64>>, <<Ints64>>>>)
      [] c = "pwr" -> Formatted(<<<<DateLex>>, <<NumLex>>, <<NumLex>>, <<NumLex>>,
                                  <<NumLex>>, <<TrueLex>>>>)
      [] c = "rht" -> Formatted(<<<<DateLex>>, <<NumLex>>, <<NumLex>>, <<"m,p,m">>,
                                  <<TrueLex>>>>)
      [] c = "co2" -> Formatted(<<<<DateLex>>, <<NumLex>>, <<NumLex>>, <<NumLex>>,
                                  <<TrueLex>>>>)
      [] c = "htr" -> Formatted(<<<<Nums10>>, <<Nums10>>, <<Nums10>>, <<Nums10>>>>)

\* the reply cut after its first field: too few fields, too short
CutReply(c) == Formatted(<<<<DateLex>>>>)

\* the reply with a collector notice in front
NoticedReply(c) == GcMarker \o <<CRLF>> \o GoodReply(c)

\* the reply with the start of a notice ("GC: " without "total") in front
HalfNoticedReply(c) == <<"GC:", " ", "x", CRLF>> \o GoodReply(c)

\* the heaters' reply with every status 0
IdleReply == Formatted(<<<<Nums10>>, <<Nums10>>, <<Zeros10>>, <<Nums10>>>>)

\* the heaters' reply with nine objectives
ShortObjReply == Formatted(<<<<Nums10>>, <<Nums9>>, <<Nums10>>, <<Nums10>>>>)

\* the reply with one value too few in its first list of numbers
FewReply(c) ==
    CASE c = "tmp" -> Formatted(<<<<DateLex>>, <<Ints63>>, <<Ints64>>>>)
      [] c = "htr" -> Formatted(<<<<Nums9>>, <<Nums10>>, <<Nums10>>, <<Nums10>>>>)
      [] OTHER -> GoodReply(c)

\* the reply with text where its first number should be
TextReply(c) ==
    CASE c = "tmp" -> Formatted(<<<<DateLex>>, <<"x">>, <<Ints64>>>>)
      [] c = "pwr" -> Formatted(<<<<DateLex>>, <<"x">>, <<NumLex>>, <<NumLex>>,
                                  <<NumLex>>, <<TrueLex>>>>)
      [] c = "rht" -> Formatted(<<<<DateLex>>, <<"x">>, <<NumLex>>, <<"m,p,m">>,
                                  <<TrueLex>>>>)
      [] c = "co2" -> Formatted(<<<<DateLex>>, <<"x">>, <<NumLex>>, <<NumLex>>,
                                  <<TrueLex>>>>)
      [] c = "htr" -> Formatted(<<<<"x">>, <<Nums10>>, <<Nums10>>, <<Nums10>>>>)


\* What a getter makes of the tokens m of an accepted reply: "ok" (fresh
\* data), "stale" (a value is returned, the fresh-data flag stays down), or
\* the exception raised.
\* get_int_temperatures, lines 1684-1737
ParseTmp(m) ==
    IF ~IsDate(m[1]) \/ ~IsNumbers(m[2]) THEN ValueErr
    ELSE IF NumbersIn(m[2]) # 64 THEN "stale"
    ELSE IF ~IsNumbers(m[3]) THEN ValueErr
    ELSE "ok"
\* get_power_str, lines 1764-1780
ParsePwr(m) ==
    IF ~IsDate(m[1]) THEN ValueErr
    ELSE IF \E k \in 2..5 : ~IsNumbers(m[k]) THEN ValueErr
    ELSE IF IsNone(ParseValid(m)) THEN TypeErr
    ELSE "ok"
\* get_rht_str, lines 1862-1892
ParseRht(m) ==
    IF ~IsDate(m[1]) THEN ValueErr
    ELSE IF \E k \in 2..3 : ~IsNumbers(m[k]) THEN ValueErr
    ELSE IF IsNone(ParseValid(m)) THEN TypeErr
    ELSE "ok"
\* get_co2_str, lines 1800-1823
ParseCo2(m) ==
    IF m = <<>> THEN IndexErr
    ELSE IF IsNone(ParseValid(m)) THEN TypeErr
    ELSE IF ~Val(ParseValid(m)) THEN "stale"
    ELSE IF ~IsDate(m[1]) THEN ValueErr
    ELSE IF \E k \in 2..Min({4, Len(m)}) : ~IsNumbers(m[k]) THEN ValueErr
    ELSE IF Len(m) < 4 THEN IndexErr
    ELSE "ok"
\* get_heaters_status, lines 894-937; mm[0][1:] drops the leading "$"
ParseHtr(m) ==
    IF m = <<>> THEN IndexErr
    ELSE IF ~IsNumbers(Tail(m[1])) THEN ValueErr
    ELSE IF NumbersIn(Tail(m[1])) # 10 THEN "stale"
    ELSE IF Len(m) < 2 THEN IndexErr
    ELSE IF ~IsNumbers(m[2]) THEN ValueErr
    ELSE IF Len(m) < 3 THEN IndexErr
    ELSE IF ~IsNumbers(m[3]) THEN ValueErr
    ELSE IF Len(m) < 4 THEN IndexErr
    ELSE IF ~IsNumbers(m[4]) THEN ValueErr
    ELSE IF NumbersIn(m[3]) # 10 THEN "stale"
    ELSE "ok"

ParseSensor(c, m) ==
    CASE c = "tmp" -> ParseTmp(m)
      [] c = "pwr" -> ParsePwr(m)
      [] c = "rht" -> ParseRht(m)
      [] c = "co2" -> ParseCo2(m)
      [] c = "htr" -> ParseHtr(m)

-----------------------------------------------------------------------------
(* The getters and the sample_<class> wrappers *)

NUM_HEATERS == 10

\* a mistaken test that looks for the index among the targets
HeaterOnByTarget(active_heaters, hi) ==
    IF \E k \in DOMAIN active_heaters : active_heaters[k] = hi THEN 1 ELSE 0

\* line 926: `1 if hi in self.active_heaters else 0`; active_heaters is the
\* dict index -> target made by read_cfg (lines 399-409)
HeaterOn(active_heaters, hi) ==
    IF hi \in DOMAIN active_heaters THEN 1 ELSE 0

\* lines 926-927: h_on, the entry of heater hi at position hi + 1
HOn(active_heaters) ==
    [k \in 1..NUM_HEATERS |-> HeaterOn(active_heaters, k - 1)]

FrGetter(c) == Frame("get_sensor", [c |-> c])
FrSample(c) == Frame("sample_sensors", [c |-> c])
FrDump(n) == Frame("dump_point_to_file", [n |-> n])

\* BackoffCtr, libbase.py lines 303-360

\* _climb_level_forever, lines 337-340: the level that has no cap
ClimbLevelForever(level, max_count) == level * 2

\* _climb_level, lines 342-347
ClimbLevel(level, max_count) ==
    IF level * 2 > max_count THEN max_count ELSE level * 2

\* a mistaken test that lets one more hit pass before True
HitOverdue(n, threshold) == n > threshold

\* `self._n >= (self.cur_level * self.per_level)`
HitDue(n, threshold) == n >= threshold

\* what hit() returns, lines 330-335
HitReturns(ctr, per_level) == HitDue(ctr.n + 1, ctr.cur_level * per_level)

\* the counter after hit(), lines 329-335
Hit(ctr, per_level, max_count) ==
    IF HitReturns(ctr, per_level)
    THEN [n |-> 0, cur_level |-> ClimbLevel(ctr.cur_level, max_count)]
    ELSE [ctr EXCEPT !.n = @ + 1]

\* hit and reset of the handle's counters, made with the defaults
\* per_level = 1 and max_count = 360, libabc.py lines 281-285
BackoffHit(ctr) == Hit(ctr, 1, 360)
\* a mistaken hitok() that leaves the counter as it is
BackoffKept(ctr) == ctr
BackoffReset(ctr) == [n |-> 0, cur_level |-> 1]

\* the head of every getter: the fresh-data flag is cleared, the session is
\* opened if it is not, the command runs with retries=3 and watermark 80
GetSensorStart ==
    /\ Running("get_sensor")
    /\ newdata2csv' = [newdata2csv EXCEPT ![Top.l.c] = FALSE]
    /\ htr_up_to_date' = IF Top.l.c = "htr" THEN FALSE ELSE htr_up_to_date
    /\ stack' = IF upy_status
                THEN CallFrom("get_sensor.resp", Top.l,
                              FrSafeExec(SensorCmd(Top.l.c), 3, SensorMinLen(Top.l.c),
                                         SensorNFields(Top.l.c), Some(80000)))
                ELSE CallFrom("get_sensor.con", Top.l, FrUpyIni)
    /\ UNCHANGED <<exc, ret, now, alarm, upy_status, heaters_status, counters,
                   timer, dbg, mem_usage, cntr_wrn, caller, obs>>

GetSensorExec ==
    /\ Running("get_sensor.con")
    /\ stack' = CallFrom("get_sensor.resp", Top.l,
                         FrSafeExec(SensorCmd(Top.l.c), 3, SensorMinLen(Top.l.c),
                                    SensorNFields(Top.l.c), Some(80000)))
    /\ UNCHANGED <<exc, ret, now, alarm, upy_status, heaters_status, counters,
                   timer, dbg, mem_usage, samples, caller, obs>>

\* the tail of every getter: the marker is looked for once more, the tokens
\* are parsed
GetSensorParse ==
    /\ Running("get_sensor.resp")
    /\ LET c == Top.l.c
           text == SensorText(c, ret)
           out == IF Contains(text, SensorMarker(c)) THEN Garbled
                  ELSE ParseSensor(c, FindAll(text))
       IN  /\ stack' = Pop
           /\ IF out \in {"ok", "stale"}
              THEN /\ ret' = [out |-> out, m |-> FindAll(text),
                               h_on |-> IF c = "htr" /\ out = "ok"
                                        THEN Some(HOn(cfg.active_heaters))
                                        ELSE None]
                   /\ exc' = exc
                   /\ newdata2csv' = [newdata2csv EXCEPT ![c] = (out = "ok")]
                   /\ htr_up_to_date' = IF c = "htr" THEN out = "ok" ELSE htr_up_to_date
              ELSE /\ exc' = out
                   /\ UNCHANGED <<ret, newdata2csv, htr_up_to_date>>
    /\ UNCHANGED <<now, alarm, upy_status, heaters_status, counters, timer, dbg,
                   mem_usage, cntr_wrn, caller, obs>>

\* sample_<class>_sensors: the getter is called
SampleFetch ==
    /\ Running("sample_sensors")
    /\ stack' = CallFrom("sample_sensors.got", Top.l, FrGetter(Top.l.c))
    /\ UNCHANGED <<exc, ret, now, alarm, upy_status, heaters_status, counters,
                   timer, dbg, mem_usage, samples, caller, obs>>

\* sample_<class>_sensors: the value is logged and, with log2db, written to
\* the database; points that were not written go to the to-inject file.
\* sample_temp_sensors formats t_vals, which is False after a short list.
SampleLog ==
    /\ Running("sample_sensors.got")
    /\ IF Top.l.c = "tmp" /\ ret.out = "stale"
       THEN /\ exc' = AttributeErr
            /\ stack' = Pop
       ELSE /\ exc' = exc
            /\ \E written \in (IF cfg.log2db THEN board.db ELSE {TRUE}) :
                 stack' = IF written
                          THEN Jump("sample_sensors.flag", Top.l)
                          ELSE CallFrom("sample_sensors.flag", Top.l,
                                        FrDump(IF Top.l.c = "htr" THEN 10 ELSE 1))
    /\ UNCHANGED <<ret, now, alarm, upy_status, heaters_status, counters, timer,
                   dbg, mem_usage, samples, caller, obs>>

\* a mistaken handler that logs the failed append without counting it
CaughtAfterDumpUncounted(cnt, appended) == cnt

\* lines 1168-1175: `except (OSError, IOError)` counts the failed append
CaughtAfterDump(cnt, appended) == IF appended THEN cnt ELSE cnt + 1

\* dump_point_to_file, lines 1161-1175, once per point
DumpPoint ==
    /\ Running("dump_point_to_file")
    /\ cnt_dumped_points' = cnt_dumped_points + 1
    /\ \E appended \in board.file :
         /\ cnt_caught_exceptions' = CaughtAfterDump(cnt_caught_exceptions, appended)
         /\ obs' = [obs EXCEPT !.dp.calls = @ + 1,
                               !.dp.appended = IF appended THEN @ + 1 ELSE @]
    /\ stack' = IF Top.l.n > 1 THEN Jump(Top.pc, [n |-> Top.l.n - 1]) ELSE Pop
    /\ UNCHANGED <<exc, ret, now, alarm, upy_status, heaters_status, i,
                   cnt_toolong_loops, timer, dbg, mem_usage, samples, caller>>

\* sample_<class>_sensors: fresh data goes to the csv and the flag is
\* cleared; otherwise the warning counter is hit
SampleFlag ==
    /\ Running("sample_sensors.flag")
    /\ LET c == Top.l.c
       IN  IF newdata2csv[c]
           THEN /\ newdata2csv' = [newdata2csv EXCEPT ![c] = FALSE]
                /\ cntr_wrn' = [cntr_wrn EXCEPT ![c] = BackoffReset(@)]
           ELSE /\ cntr_wrn' = [cntr_wrn EXCEPT ![c] = BackoffHit(@)]
                /\ UNCHANGED newdata2csv
    /\ stack' = Pop
    /\ ret' = None
    /\ UNCHANGED <<exc, now, alarm, upy_status, heaters_status, counters, timer,
                   dbg, mem_usage, htr_up_to_date, caller, obs>>

-----------------------------------------------------------------------------
(* The board clock: get_datetime, compare_datetime, check_update_datetime *)

CmdGetDatetime == Cmd("hf.callformatprint(s.get_datetime)", None, None)
CmdSetDate == Cmd("s.set_date", None, None)
CmdSetTime == Cmd("s.set_time", None, None)

\* The time of day the board reports, by how far it lags behind the host
\* (in ticks) when it answers
ClockLexemes == {"17,3,11", "17,3,11-1.2s", "17,3,11-2s"}
ClockLag(w) ==
    CASE w = "17,3,11" -> 0
      [] w = "17,3,11-1.2s" -> 12
      [] w = "17,3,11-2s" -> 20

ClockReply(w) == <<"$", "$", "2021,11,5", "*", "$", w, "*", "*", CRLF>>

\* datetime.strptime(_date, "$$%Y,%m,%d*$%H,%M,%S**") succeeds
IsClock(text) ==
    /\ Len(text) = 8
    /\ text[6] \in ClockLexemes
    /\ text = DropLast(ClockReply(text[6]))

FrGetDatetime == Frame("get_datetime", <<>>)
FrCompare == Frame("compare_datetime", <<>>)
FrCud == Frame("check_update_datetime", <<>>)

\* lines 1906-1913
GetDatetimeStart ==
    /\ Running("get_datetime")
    /\ stack' = IF upy_status
                THEN CallFrom("get_datetime.resp", Top.l,
                              FrSafeExec(CmdGetDatetime, 3, Some(19), None, Some(80000)))
                ELSE CallFrom("get_datetime.con", Top.l, FrUpyIni)
    /\ UNCHANGED <<exc, ret, now, alarm, upy_status, heaters_status, counters,
                   timer, dbg, mem_usage, samples, caller, obs>>

GetDatetimeExec ==
    /\ Running("get_datetime.con")
    /\ stack' = CallFrom("get_datetime.resp", Top.l,
                         FrSafeExec(CmdGetDatetime, 3, Some(19), None, Some(80000)))
    /\ UNCHANGED <<exc, ret, now, alarm, upy_status, heaters_status, counters,
                   timer, dbg, mem_usage, samples, caller, obs>>

\* lines 1914-1915: except TimedOutException: return None
GetDatetimeTimedOut ==
    /\ Len(stack) > 0 /\ Top.pc = "get_datetime.resp" /\ exc = TimedOut
    /\ stack' = Pop
    /\ exc' = "none"
    /\ ret' = None
    /\ obs' = [obs EXCEPT !.ck.timed_out = @ \/ Pop[Len(Pop)].pc = "compare_datetime.pcb"]
    /\ UNCHANGED <<now, alarm, upy_status, heaters_status, counters, timer, dbg,
                   mem_usage, samples, caller>>

\* lines 1917-1930: the board time, Some(t), of a reply that parses
GetDatetimeParse ==
    /\ Running("get_datetime.resp")
    /\ LET text == Replace(ret, CRLF, <<>>)
       IN  /\ stack' = Pop
           /\ IF Contains(text, GcMarker)
              THEN exc' = Garbled /\ ret' = ret
              ELSE IF ~IsClock(text)
              THEN exc' = ValueErr /\ ret' = ret
              ELSE exc' = exc /\ ret' = Some(now - ClockLag(text[6]))
    /\ UNCHANGED <<now, alarm, upy_status, heaters_status, counters, timer, dbg,
                   mem_usage, samples, caller, obs>>

\* line 1936
CompareDatetimeGet ==
    /\ Running("compare_datetime")
    /\ stack' = CallFrom("compare_datetime.pcb", Top.l, FrGetDatetime)
    /\ UNCHANGED <<exc, ret, now, alarm, upy_status, heaters_status, counters,
                   timer, dbg, mem_usage, samples, caller, obs>>

\* lines 1937-1949: the difference host - board, 0 when there is no board time
CompareDatetimeDelta ==
    /\ Running("compare_datetime.pcb")
    /\ stack' = Pop
    /\ ret' = IF IsNone(ret) THEN 0 ELSE now - Val(ret)
    /\ obs' = [obs EXCEPT !.ck.delta = Some(IF IsNone(ret) THEN 0 ELSE now - Val(ret))]
    /\ UNCHANGED <<exc, now, alarm, upy_status, heaters_status, counters, timer,
                   dbg, mem_usage, samples, caller>>

Abs(x) == IF x < 0 THEN -x ELSE x

\* a mistaken test that leaves a drift equal to the tolerance alone
DriftAboveTolerance(delta, tol) == Abs(delta) > tol

\* `abs(delta_t) >= self.tol_clockdrift_s`
DriftTooLarge(delta, tol) == Abs(delta) >= tol

\* line 1954
CudCompare ==
    /\ Running("check_update_datetime")
    /\ stack' = CallFrom("check_update_datetime.delta", Top.l, FrCompare)
    /\ obs' = [obs EXCEPT !.lp.clock = TRUE]
    /\ UNCHANGED <<exc, ret, now, alarm, upy_status, heaters_status, counters,
                   timer, dbg, mem_usage, samples, caller>>

\* lines 1955-1971: set the date if the drift is too large; otherwise the
\* board time is read once more for the debug message
CudDecide ==
    /\ Running("check_update_datetime.delta")
    /\ IF DriftTooLarge(ret, cfg.tol_clockdrift)
       THEN stack' = CallFrom("check_update_datetime.date", Top.l,
                              FrSafeExec(CmdSetDate, 1, Some(0), None, Some(80000)))
       ELSE IF cfg.verb_debug
       THEN stack' = CallFrom("check_update_datetime.msg", Top.l, FrGetDatetime)
       ELSE stack' = Pop
    /\ UNCHANGED <<exc, ret, now, alarm, upy_status, heaters_status, counters,
                   timer, dbg, mem_usage, samples, caller, obs>>

\* lines 1959-1960: then the time
CudSetTime ==
    /\ Running("check_update_datetime.date")
    /\ stack' = CallFrom("check_update_datetime.time", Top.l,
                         FrSafeExec(CmdSetTime, 1, Some(0), None, Some(80000)))
    /\ UNCHANGED <<exc, ret, now, alarm, upy_status, heaters_status, counters,
                   timer, dbg, mem_usage, samples, caller, obs>>

\* lines 1961-1963: the message reads the board time once more
CudReadBack ==
    /\ Running("check_update_datetime.time")
    /\ stack' = CallFrom("check_update_datetime.msg", Top.l, FrGetDatetime)
    /\ UNCHANGED <<exc, ret, now, alarm, upy_status, heaters_status, counters,
                   timer, dbg, mem_usage, samples, caller, obs>>

CudDone ==
    /\ Running("check_update_datetime.msg")
    /\ stack' = Pop
    /\ ret' = None
    /\ UNCHANGED <<exc, now, alarm, upy_status, heaters_status, counters, timer,
                   dbg, mem_usage, samples, caller, obs>>

\* lines 1972-1978: except ABCGarbledRespError
CudGarbled ==
    /\ Len(stack) > 0 /\ Top.pc \in CudLabels /\ exc = Garbled
    /\ stack' = Pop
    /\ exc' = "none"
    /\ ret' = None
    /\ cnt_caught_exceptions' = cnt_caught_exceptions + 1
    /\ obs' = [obs EXCEPT !.lp.clock_caught = TRUE]
    /\ UNCHANGED <<now, alarm, upy_status, heaters_status, i, cnt_toolong_loops,
                   cnt_dumped_points, timer, dbg, mem_usage, samples, caller>>

-----------------------------------------------------------------------------
(* loop and consume_idle_time *)

FrLoop(consume) == Frame("loop", [consume |-> consume, k |-> 1])
FrConsume == Frame("consume_idle_time", [d |-> 0, at |-> 0, deadline |-> 0, counted |-> 0])

\* line 1187
LoopStart ==
    /\ Running("loop")
    /\ t_start_iter' = now
    /\ stack' = Jump("loop.sensors", Top.l)
    /\ UNCHANGED <<exc, ret, now, alarm, upy_status, heaters_status, counters,
                   t_end, dbg, mem_usage, samples, caller, obs>>

\* lines 1205-1208 and 1229-1230: the next enabled class is sampled; after
\* the last one the clock is checked
LoopSensors ==
    /\ Running("loop.sensors")
    /\ LET k == Top.l.k
       IN  IF k > Len(Classes)
           THEN /\ stack' = CallFrom("loop.clock", Top.l, FrCud)
                /\ obs' = obs
           ELSE IF ~cfg.sample[Classes[k]]
           THEN /\ stack' = Jump("loop.sensors", [Top.l EXCEPT !.k = k + 1])
                /\ obs' = obs
           ELSE /\ stack' = CallFrom("loop.fetch", Top.l, FrSample(Classes[k]))
                /\ obs' = [obs EXCEPT !.lp.fetched = Append(@, Classes[k])]
    /\ UNCHANGED <<exc, ret, now, alarm, upy_status, heaters_status, counters,
                   timer, dbg, mem_usage, samples, caller>>

\* the class was sampled without an exception
LoopFetched ==
    /\ Running("loop.fetch")
    /\ stack' = Jump("loop.sensors", [Top.l EXCEPT !.k = @ + 1])
    /\ UNCHANGED <<exc, ret, now, alarm, upy_status, heaters_status, counters,
                   timer, dbg, mem_usage, samples, caller, obs>>

\* lines 1209-1225: except (ABCTooShortRespError, ABCGarbledRespError)
LoopCaught ==
    /\ Len(stack) > 0 /\ Top.pc = "loop.fetch" /\ exc \in {TooShort, Garbled}
    /\ exc' = "none"
    /\ cnt_caught_exceptions' = cnt_caught_exceptions + 1
    /\ stack' = Jump("loop.sensors", [Top.l EXCEPT !.k = @ + 1])
    /\ obs' = [obs EXCEPT !.lp.caught = Append(@, Classes[Top.l.k])]
    /\ UNCHANGED <<ret, now, alarm, upy_status, heaters_status, i,
                   cnt_toolong_loops, cnt_dumped_points, timer, dbg, mem_usage,
                   samples, caller>>

\* lines 1232-1233
LoopClockChecked ==
    /\ Running("loop.clock")
    /\ stack' = IF Top.l.consume
                THEN CallFrom("loop.consume", Top.l, FrConsume)
                ELSE Jump("loop.consume", Top.l)
    /\ UNCHANGED <<exc, ret, now, alarm, upy_status, heaters_status, counters,
                   timer, dbg, mem_usage, samples, caller, obs>>

\* line 1235
LoopEnd ==
    /\ Running("loop.consume")
    /\ i' = i + 1
    /\ stack' = Pop
    /\ ret' = None
    /\ obs' = ObsLeave(obs, Top, "return", None)
    /\ UNCHANGED <<exc, now, alarm, upy_status, heaters_status,
                   cnt_caught_exceptions, cnt_toolong_loops, cnt_dumped_points,
                   timer, dbg, mem_usage, samples, caller>>

\* a mistaken overrun test that also counts an iteration ending on time
OverrunOrOnTime(t_idle) == t_idle <= 0

\* `t_idle.total_seconds() < 0`
Overrun(t_idle) == t_idle < 0

\* a mistaken deadline, periodic from the previous one
PeriodicDeadline(wake, deadline, delay) == deadline + delay

\* `self.t_end = self.utcnow() + self.td_loop_delay`
NextDeadline(wake, deadline, delay) == wake + delay

\* lines 1244-1263 when there is nothing to sleep: both readings of the clock,
\* the overrun count and the new deadline; lines 1244-1259 otherwise
ConsumeMeasure ==
    /\ Running("consume_idle_time")
    /\ LET t_idle == t_end - now
           counted == IF Overrun(t_idle) THEN 1 ELSE 0
           f == [Top.l EXCEPT !.at = now, !.deadline = t_end, !.counted = counted,
                              !.d = t_idle]
       IN  /\ cnt_toolong_loops' = cnt_toolong_loops + counted
           /\ IF t_idle > 0
              THEN /\ stack' = Jump("consume_idle_time.sleep", f)
                   /\ UNCHANGED <<t_end, ret, obs>>
              ELSE /\ t_end' = NextDeadline(now, t_end, cfg.loop_delay)
                   /\ stack' = Pop
                   /\ ret' = None
                   /\ obs' = [obs EXCEPT !.co = [done |-> TRUE, at |-> now,
                                                 deadline |-> t_end, counted |-> counted,
                                                 slept |-> 0, wake |-> now]]
    /\ UNCHANGED <<exc, now, alarm, upy_status, heaters_status, i,
                   cnt_caught_exceptions, cnt_dumped_points, t_start_iter, dbg,
                   mem_usage, samples, caller>>

\* lines 1260-1263: time.sleep(t_idle), then the new deadline
ConsumeSleep ==
    /\ Running("consume_idle_time.sleep")
    /\ IF Interrupted(Top.l.d)
       THEN /\ now' = Val(alarm)
            /\ alarm' = None
            /\ exc' = TimedOut
            /\ UNCHANGED <<stack, ret, t_end, obs>>
       ELSE /\ now' = now + Top.l.d
            /\ t_end' = NextDeadline(now + Top.l.d, t_end, cfg.loop_delay)
            /\ stack' = Pop
            /\ ret' = None
            /\ obs' = [obs EXCEPT !.co = [done |-> TRUE, at |-> Top.l.at,
                                          deadline |-> Top.l.deadline,
                                          counted |-> Top.l.counted,
                                          slept |-> Top.l.d, wake |-> now + Top.l.d]]
            /\ UNCHANGED <<exc, alarm>>
    /\ UNCHANGED <<upy_status, heaters_status, counters, t_start_iter, dbg,
                   mem_usage, samples, caller>>

-----------------------------------------------------------------------------
(* Heaters *)

HTR_IDX_INVALID == -98
GET_HTR_STATUS_FAILED == -99

\* h.activate(<state>, <idx>), h.activate(<state>), h.objective(<t>, idx=<idx>)
CmdActivate(state, idx) == Cmd("h.activate", Some(IF state THEN 1 ELSE 0), idx)
CmdObjective(t, idx) == Cmd("h.objective", Some(t), idx)

\* _is_valid_heater, lines 832-844
IsValidHeater(idx) == ~IsNone(idx) /\ ~(Val(idx) < 0 \/ Val(idx) >= NUM_HEATERS)

FrHeatersIni == Frame("heaters_ini", [i |-> 0])
FrSetHeaterActive(state, idx, warn, clear) ==
    Frame("set_heater_active", [state |-> state, idx |-> idx, warn |-> warn,
                                clear |-> clear])
\* the accessors get_heaters_objective, _active, _avg_temp, _pwm
FrAccessor(which, idx) == Frame("get_heaters", [which |-> which, idx |-> idx])
FrHeaterActivate(idx, warn) == Frame("heater_activate", [idx |-> idx, warn |-> warn])
FrHeaterDeactivate(idx) == Frame("heater_deactivate", [idx |-> idx])
FrDeactivateAll == Frame("heaters_deactivate_all", [i |-> 0])
FrResetObjectives == Frame("reset_htr_objectives", <<>>)
FrDisableGlobal == Frame("disable_heater_global_thread", <<>>)
FrSetObjective(idx, t) == Frame("set_heater_objective", [idx |-> idx, t |-> t])

\* time.sleep(d) of the frame on top, which goes on at `label`
Sleep(d, label, l) ==
    IF Interrupted(d)
    THEN /\ now' = Val(alarm)
         /\ alarm' = None
         /\ exc' = TimedOut
         /\ UNCHANGED stack
    ELSE /\ now' = now + d
         /\ stack' = Jump(label, l)
         /\ UNCHANGED <<exc, alarm>>

\* lines 851-856: nothing to do when initialised; else the session, then
\* the memory check with a watermark of 50
HeatersIniStart ==
    /\ Running("heaters_ini")
    /\ stack' = IF heaters_status THEN Pop
                ELSE IF upy_status
                THEN CallFrom("heaters_ini.loop", Top.l, FrCheckMem(50000))
                ELSE CallFrom("heaters_ini.con", Top.l, FrUpyIni)
    /\ UNCHANGED <<exc, ret, now, alarm, upy_status, heaters_status, counters,
                   timer, dbg, mem_usage, samples, caller, obs>>

\* line 856, once the session is open
HeatersIniMem ==
    /\ Running("heaters_ini.con")
    /\ stack' = CallFrom("heaters_ini.loop", Top.l, FrCheckMem(50000))
    /\ UNCHANGED <<exc, ret, now, alarm, upy_status, heaters_status, counters,
                   timer, dbg, mem_usage, samples, caller, obs>>

\* lines 859-866: each heater is deactivated, then the global enable
HeatersIniLoop ==
    /\ Running("heaters_ini.loop")
    /\ stack' = IF Top.l.i < NUM_HEATERS
                THEN CallFrom("heaters_ini.sleep", Top.l,
                              FrSafeExec(CmdActivate(FALSE, Some(Top.l.i)), 3, None,
                                         None, None))
                ELSE CallFrom("heaters_ini.done", Top.l,
                              FrSafeExec(CmdActivate(TRUE, None), 3, None, None,
                                         Some(80000)))
    /\ UNCHANGED <<exc, ret, now, alarm, upy_status, heaters_status, counters,
                   timer, dbg, mem_usage, samples, caller, obs>>

\* line 863: time.sleep(0.1)
HeatersIniSleep ==
    /\ Running("heaters_ini.sleep")
    /\ Sleep(DeactDelay, "heaters_ini.loop", [Top.l EXCEPT !.i = @ + 1])
    /\ UNCHANGED <<ret, upy_status, heaters_status, counters, timer, dbg,
                   mem_usage, samples, caller, obs>>

\* lines 867-869
HeatersIniDone ==
    /\ Running("heaters_ini.done")
    /\ heaters_status' = TRUE
    /\ stack' = Pop
    /\ ret' = None
    /\ UNCHANGED <<exc, now, alarm, upy_status, counters, timer, dbg, mem_usage,
                   samples, caller, obs>>

\* An accessor's result: a value, a vector, False or an error code
Result(kind, v) == [kind |-> kind, v |-> v]

\* the token of the status reply each accessor reads
VectorOf(which, m) ==
    CASE which = "objective" -> m[2]
      [] which = "active" -> m[3]
      [] which = "avg_temp" -> Tail(m[1])
      [] which = "pwm" -> m[4]

\* lines 939-945, 1089-1095, 1124-1128, 1142-1146
AccessorStart ==
    /\ Running("get_heaters")
    /\ stack' = IF upy_status \/ Top.l.which \in {"avg_temp", "pwm"}
                THEN CallFrom("get_heaters.st", Top.l, FrGetter("htr"))
                ELSE CallFrom("get_heaters.con", Top.l, FrUpyIni)
    /\ UNCHANGED <<exc, ret, now, alarm, upy_status, heaters_status, counters,
                   timer, dbg, mem_usage, samples, caller, obs>>

\* get_heaters_status is called, once the session is open
AccessorStatus ==
    /\ Running("get_heaters.con")
    /\ stack' = CallFrom("get_heaters.st", Top.l, FrGetter("htr"))
    /\ UNCHANGED <<exc, ret, now, alarm, upy_status, heaters_status, counters,
                   timer, dbg, mem_usage, samples, caller, obs>>

\* except ABCGarbledRespError: return self._GET_HTR_STATUS_FAILED
AccessorGarbled ==
    /\ Len(stack) > 0 /\ Top.pc = "get_heaters.st" /\ exc = Garbled
    /\ stack' = Pop
    /\ exc' = "none"
    /\ ret' = Result("code", GET_HTR_STATUS_FAILED)
    /\ UNCHANGED <<now, alarm, upy_status, heaters_status, counters, timer, dbg,
                   mem_usage, samples, caller, obs>>

\* the vector for idx None, its element for a valid idx, the code for an
\* invalid one; after a status of [False] * 5 the vector is False
AccessorPick ==
    /\ Running("get_heaters.st")
    /\ stack' = Pop
    /\ LET idx == Top.l.idx
           v == VectorOf(Top.l.which, ret.m)
       IN  IF IsNone(idx)
           THEN /\ ret' = IF ret.out = "ok" THEN Result("vector", ElementOf(v[1]))
                          ELSE Result("false", 0)
                /\ exc' = exc
           ELSE IF ~IsValidHeater(idx)
           THEN /\ ret' = Result("code", HTR_IDX_INVALID)
                /\ exc' = exc
           ELSE IF ret.out = "ok"
           THEN /\ ret' = Result("value", ElementOf(v[1]))
                /\ exc' = exc
           ELSE /\ exc' = TypeErr
                /\ ret' = ret
    /\ UNCHANGED <<now, alarm, upy_status, heaters_status, counters, timer, dbg,
                   mem_usage, samples, caller, obs>>

\* a mistaken guard that never initialises the heaters
NeedsHeatersIniNever(status) == FALSE

\* lines 1006 and 1116: `if self.heaters_status is False:`
NeedsHeatersIni(status) == status = FALSE

\* lines 1001-1007
SetHeaterStart ==
    /\ Running("set_heater_active")
    /\ IF ~IsValidHeater(Top.l.idx)
       THEN stack' = Pop /\ ret' = FALSE
       ELSE /\ ret' = ret
            /\ stack' = IF NeedsHeatersIni(heaters_status)
                        THEN CallFrom("set_heater_active.ini", Top.l, FrHeatersIni)
                        ELSE Jump("set_heater_active.ini", Top.l)
    /\ UNCHANGED <<exc, now, alarm, upy_status, heaters_status, counters, timer,
                   dbg, mem_usage, samples, caller, obs>>

\* lines 1010-1012 and 1029-1031
SetHeaterState ==
    /\ Running("set_heater_active.ini")
    /\ stack' = IF Top.l.state
                THEN CallFrom("set_heater_active.obj", Top.l,
                              FrAccessor("objective", Top.l.idx))
                ELSE CallFrom("set_heater_active.off", Top.l,
                              FrSafeExec(CmdActivate(FALSE, Top.l.idx), 3, None, None,
                                         Some(80000)))
    /\ UNCHANGED <<exc, ret, now, alarm, upy_status, heaters_status, counters,
                   timer, dbg, mem_usage, samples, caller, obs>>

\* lines 1014-1025: an objective that could not be read ends the call; the
\* warning's format specifier "2.f" is invalid
SetHeaterObjective ==
    /\ Running("set_heater_active.obj")
    /\ IF ~IsNone(Top.l.warn) /\ ret.kind = "code"
       THEN stack' = Pop /\ ret' = FALSE /\ exc' = exc
       ELSE IF ~IsNone(Top.l.warn) /\ ret.v < Val(Top.l.warn)
       THEN stack' = Pop /\ ret' = ret /\ exc' = ValueErr
       ELSE /\ stack' = CallFrom("set_heater_active.on", Top.l,
                                 FrSafeExec(CmdActivate(TRUE, Top.l.idx), 3, None, None,
                                            Some(80000)))
            /\ UNCHANGED <<ret, exc>>
    /\ obs' = [obs EXCEPT !.h_t_obj = Some(ret)]
    /\ UNCHANGED <<now, alarm, upy_status, heaters_status, counters, timer, dbg,
                   mem_usage, samples, caller>>

\* lines 1025-1027, 1036-1038
SetHeaterOn ==
    /\ Running("set_heater_active.on")
    /\ stack' = Pop
    /\ ret' = TRUE
    /\ UNCHANGED <<exc, now, alarm, upy_status, heaters_status, counters, timer,
                   dbg, mem_usage, samples, caller, obs>>

\* a mistaken test that resets the objective whatever clear_t_obj is
ClearsAlways(l) == TRUE

\* line 1034: `if clear_t_obj:`
ClearsObjective(l) == l.clear

\* lines 1032-1038
SetHeaterOff ==
    /\ Running("set_heater_active.off")
    /\ IF ClearsObjective(Top.l)
       THEN /\ stack' = CallFrom("set_heater_active.on", Top.l,
                                 FrSafeExec(CmdObjective(cfg.heater_def_tmp, Top.l.idx),
                                            3, None, None, Some(80000)))
            /\ ret' = ret
       ELSE stack' = Pop /\ ret' = TRUE
    /\ UNCHANGED <<exc, now, alarm, upy_status, heaters_status, counters, timer,
                   dbg, mem_usage, samples, caller, obs>>

\* lines 961-964
HeaterActivateStart ==
    /\ Running("heater_activate")
    /\ IF ~IsValidHeater(Top.l.idx)
       THEN stack' = Pop /\ ret' = FALSE
       ELSE /\ stack' = CallFrom("heater_activate.act", Top.l,
                                 FrAccessor("active", Top.l.idx))
            /\ ret' = ret
    /\ UNCHANGED <<exc, now, alarm, upy_status, heaters_status, counters, timer,
                   dbg, mem_usage, samples, caller, obs>>

\* lines 964-970: a heater whose status reads 0 is activated
HeaterActivateDecide ==
    /\ Running("heater_activate.act")
    /\ IF ret.v = 0
       THEN /\ stack' = CallFrom("heater_activate.set", Top.l,
                                 FrSetHeaterActive(TRUE, Top.l.idx, Top.l.warn, TRUE))
            /\ ret' = ret
       ELSE stack' = Pop /\ ret' = FALSE
    /\ UNCHANGED <<exc, now, alarm, upy_status, heaters_status, counters, timer,
                   dbg, mem_usage, samples, caller, obs>>

\* line 966
HeaterActivateDone ==
    /\ Running("heater_activate.set")
    /\ stack' = Pop
    /\ ret' = TRUE
    /\ UNCHANGED <<exc, now, alarm, upy_status, heaters_status, counters, timer,
                   dbg, mem_usage, samples, caller, obs>>

\* lines 974-977
HeaterDeactivateStart ==
    /\ Running("heater_deactivate")
    /\ IF ~IsValidHeater(Top.l.idx)
       THEN stack' = Pop /\ ret' = FALSE
       ELSE /\ stack' = CallFrom("heater_deactivate.act", Top.l,
                                 FrAccessor("active", Top.l.idx))
            /\ ret' = ret
    /\ UNCHANGED <<exc, now, alarm, upy_status, heaters_status, counters, timer,
                   dbg, mem_usage, samples, caller, obs>>

\* lines 977-987: `get_heaters_active(h_idx) is True` holds for no number,
\* so the heater counts as deactivated already
HeaterDeactivateDecide ==
    /\ Running("heater_deactivate.act")
    /\ stack' = Pop
    /\ ret' = FALSE
    /\ UNCHANGED <<exc, now, alarm, upy_status, heaters_status, counters, timer,
                   dbg, mem_usage, samples, caller, obs>>

\* lines 1056-1061: each heater in turn, then the objectives
DeactivateAllLoop ==
    /\ Running("heaters_deactivate_all")
    /\ stack' = IF Top.l.i < NUM_HEATERS
                THEN CallFrom("heaters_deactivate_all.sleep", Top.l,
                              FrSetHeaterActive(FALSE, Some(Top.l.i), None, FALSE))
                ELSE CallFrom("heaters_deactivate_all.reset", Top.l, FrResetObjectives)
    /\ UNCHANGED <<exc, ret, now, alarm, upy_status, heaters_status, counters,
                   timer, dbg, mem_usage, samples, caller, obs>>

\* line 1058: time.sleep(0.1)
DeactivateAllSleep ==
    /\ Running("heaters_deactivate_all.sleep")
    /\ Sleep(DeactDelay, "heaters_deactivate_all", [Top.l EXCEPT !.i = @ + 1])
    /\ UNCHANGED <<ret, upy_status, heaters_status, counters, timer, dbg,
                   mem_usage, samples, caller, obs>>

\* lines 1061-1063
DeactivateAllDisable ==
    /\ Running("heaters_deactivate_all.reset")
    /\ stack' = CallFrom("heaters_deactivate_all.done", Top.l, FrDisableGlobal)
    /\ UNCHANGED <<exc, ret, now, alarm, upy_status, heaters_status, counters,
                   timer, dbg, mem_usage, samples, caller, obs>>

\* line 1065
DeactivateAllDone ==
    /\ Running("heaters_deactivate_all.done")
    /\ stack' = Pop
    /\ ret' = None
    /\ UNCHANGED <<exc, now, alarm, upy_status, heaters_status, counters, timer,
                   dbg, mem_usage, samples, caller, obs>>

\* lines 1070-1071
DisableGlobalExec ==
    /\ Running("disable_heater_global_thread")
    /\ stack' = CallFrom("disable_heater_global_thread.done", Top.l,
                         FrSafeExec(CmdActivate(FALSE, None), 3, None, None,
                                    Some(80000)))
    /\ UNCHANGED <<exc, ret, now, alarm, upy_status, heaters_status, counters,
                   timer, dbg, mem_usage, samples, caller, obs>>

\* lines 1073-1074
DisableGlobalDone ==
    /\ Running("disable_heater_global_thread.done")
    /\ heaters_status' = FALSE
    /\ stack' = Pop
    /\ ret' = None
    /\ UNCHANGED <<exc, now, alarm, upy_status, counters, timer, dbg, mem_usage,
                   samples, caller, obs>>

\* lines 1083-1086, with t_obj = None
ResetObjectivesExec ==
    /\ Running("reset_htr_objectives")
    /\ stack' = CallFrom("reset_htr_objectives.done", Top.l,
                         FrSafeExec(CmdObjective(cfg.heater_def_tmp, None), 3, None,
                                    None, Some(80000)))
    /\ UNCHANGED <<exc, ret, now, alarm, upy_status, heaters_status, counters,
                   timer, dbg, mem_usage, samples, caller, obs>>

\* line 1086
ResetObjectivesDone ==
    /\ Running("reset_htr_objectives.done")
    /\ stack' = Pop
    /\ ret' = None
    /\ UNCHANGED <<exc, now, alarm, upy_status, heaters_status, counters, timer,
                   dbg, mem_usage, samples, caller, obs>>

\* lines 1112-1117
SetObjectiveStart ==
    /\ Running("set_heater_objective")
    /\ IF ~IsValidHeater(Top.l.idx)
       THEN stack' = Pop /\ ret' = FALSE
       ELSE /\ ret' = ret
            /\ stack' = IF NeedsHeatersIni(heaters_status)
                        THEN CallFrom("set_heater_objective.ini", Top.l, FrHeatersIni)
                        ELSE Jump("set_heater_objective.ini", Top.l)
    /\ UNCHANGED <<exc, now, alarm, upy_status, heaters_status, counters, timer,
                   dbg, mem_usage, samples, caller, obs>>

\* lines 1119-1120
SetObjectiveExec ==
    /\ Running("set_heater_objective.ini")
    /\ stack' = CallFrom("set_heater_objective.done", Top.l,
                         FrSafeExec(CmdObjective(Top.l.t, Top.l.idx), 3, None, None,
                                    Some(80000)))
    /\ UNCHANGED <<exc, ret, now, alarm, upy_status, heaters_status, counters,
                   timer, dbg, mem_usage, samples, caller, obs>>

\* lines 1121-1122
SetObjectiveDone ==
    /\ Running("set_heater_objective.done")
    /\ stack' = Pop
    /\ ret' = TRUE
    /\ UNCHANGED <<exc, now, alarm, upy_status, heaters_status, counters, timer,
                   dbg, mem_usage, samples, caller, obs>>

-----------------------------------------------------------------------------
(* The board and the caller of the handle *)

AnyCmd == Cmd("cmd", None, None)

CmdNames ==
    {AnyCmd.f, CmdMemStatus.f, CmdGcCollect.f, CmdGetDatetime.f, CmdSetDate.f,
     CmdSetTime.f, "h.activate", "h.objective"}
    \cup {ImportCmds[k] : k \in DOMAIN ImportCmds}
    \cup {SensorCmd(Classes[k]).f : k \in DOMAIN Classes}

\* the class whose getter sends the command named f
ClassOf(f) == CHOOSE c \in {Classes[k] : k \in DOMAIN Classes} : SensorCmd(c).f = f

Token == <<"$", "x", "*">>

\* replies to a command: empty, one and two $..* tokens, loose text, a
\* collector notice alone and before a token, a cut notice
ExecReplies ==
    {<<>>, Token, Token \o <<CRLF>> \o Token, <<"x">>,
     GcMarker, GcMarker \o <<CRLF>> \o Token, <<"GC:", " ", "x">>}

\* replies to the memory query, "<free> <alloc>\r\n" when the board is well
MemReplies ==
    {<<"1000", " ", "9000", CRLF>>, <<"9000", " ", "1000", CRLF>>,
     <<"1", " ", "2", CRLF>>, <<"0", " ", "0", CRLF>>,
     <<"x", " ", "x", CRLF>>, <<"1000", CRLF>>,
     <<"1", " ", "2", " ", "0", CRLF>>, GcMarker \o <<CRLF>>}

BoardExec ==
    [replies |-> [f \in CmdNames |->
                    IF f = AnyCmd.f THEN ExecReplies
                    ELSE IF f = CmdMemStatus.f THEN MemReplies
                    ELSE {<<>>, GcMarker}],
     durations |-> [f \in CmdNames |->
                      IF f \in {AnyCmd.f, CmdMemStatus.f, CmdGcCollect.f}
                      THEN {0} ELSE {0, AlarmTicks}],
     enter |-> {"ok", "error", "blocks"},
     db |-> {TRUE},
     file |-> {TRUE}]

\* read_cfg, lines 387-413: a cadence of 1 s, the default tolerance of 1.2 s
Conf ==
    [loop_delay |-> 10, tol_clockdrift |-> 12, verb_debug |-> FALSE,
     log2db |-> FALSE, heater_def_tmp |-> 0,
     active_heaters |-> [hi \in {} |-> 0],
     sample |-> [c \in {Classes[k] : k \in DOMAIN Classes} |-> TRUE]]

\* __init__ (lines 210-285) on a board b with configuration c
InitWith(b, c) ==
    /\ stack = <<>>
    /\ exc = "none"
    /\ ret = None
    /\ now = 0
    /\ alarm = None
    /\ upy_status = FALSE
    /\ heaters_status = FALSE
    /\ i = 0
    /\ cnt_caught_exceptions = 0
    /\ cnt_toolong_loops = 0
    /\ cnt_dumped_points = 0
    /\ t_start_iter = 0
    /\ t_end = 0 + c.loop_delay
    /\ last_pyb_resp = <<>>
    /\ last_pyb_fields = <<>>
    /\ last_pyb_ntries = -1
    /\ mem_usage = [free |-> 0, alloc |-> 0, total |-> 0, pct |-> 100000]
    /\ newdata2csv = [c2 \in {"tmp", "pwr", "rht", "co2", "htr"} |-> FALSE]
    /\ htr_up_to_date = FALSE
    /\ cntr_wrn = [c2 \in {"tmp", "pwr", "rht", "co2", "htr"} |-> [n |-> 0, cur_level |-> 1]]
    /\ cfg = c
    /\ board = b
    /\ calls = 0
    /\ cur = [op |-> "none", l |-> <<>>]
    /\ obs = ObsInit

\* the caller makes a call of the handle
Call(frame) ==
    /\ Idle
    /\ calls < MaxCalls
    /\ frame.pc = "loop" => obs' = [ObsCall(obs) EXCEPT !.lp.cnt0 = cnt_caught_exceptions,
                                                     !.lp.i0 = i]
    /\ frame.pc # "loop" => obs' = ObsCall(obs)
    /\ calls' = calls + 1
    /\ stack' = <<frame>>
    /\ exc' = "none"
    /\ ret' = None
    /\ cur' = [op |-> frame.pc, l |-> frame.l]
    /\ UNCHANGED <<now, alarm, upy_status, heaters_status, counters, timer,
                   dbg, mem_usage, samples, cfg, board>>

CallUpyIni == ~upy_status /\ Call(FrUpyIni)

Watermarks == {None, Some(90000), Some(89900), Some(66668)}

CallSafeExec ==
    /\ upy_status
    /\ \E retries \in 1..MaxRetries, minlen \in {None, Some(4)},
          nfields \in {None, Some(1)}, watermark \in Watermarks :
         Call(FrSafeExec(AnyCmd, retries, minlen, nfields, watermark))

CallCheckMem ==
    /\ upy_status
    /\ \E watermark \in Watermarks \ {None} : Call(FrCheckMem(Val(watermark)))

\* the caller asks for the memory status; the stored one is remembered
CallGetMemStatus ==
    /\ upy_status
    /\ Idle
    /\ calls < MaxCalls
    /\ stack' = <<FrGetMemStatus>>
    /\ cur' = [op |-> "get_mem_status", l |-> <<>>]
    /\ obs' = [ObsCall(obs) EXCEPT !.mem0 = mem_usage]
    /\ calls' = calls + 1
    /\ exc' = "none"
    /\ ret' = None
    /\ UNCHANGED <<now, alarm, upy_status, heaters_status, counters, timer,
                   dbg, mem_usage, samples, cfg, board>>

InitExec == InitWith(BoardExec, Conf)

NextExec ==
    \/ CallUpyIni
    \/ CallSafeExec
    \/ CallCheckMem
    \/ CallGetMemStatus
    \/ UpyIniStart
    \/ UpyIniEnter
    \/ UpyIniImport
    \/ SafeExecWatermark
    \/ SafeExecTry
    \/ GetMemStatusCall
    \/ GetMemStatusParse
    \/ CheckMemCall
    \/ CheckMemGarbled
    \/ CheckMemDecide
    \/ CheckMemCollect
    \/ Unwind

SpecExec == InitExec /\ [][NextExec]_vars

-----------------------------------------------------------------------------
(* Properties of the protocol executor and of the memory watermark *)

\* the last safe_exec_abc that ended in the caller's current call
se == obs.se
\* the last check_mem_maybe_gcollect that ended in the caller's current call
cm == obs.cm

\* the reply the executor read last, decoded and normalised
LastNormalized == Replace(Val(se.last), CRLF, <<",">>)
LastIsClean == ~IsNone(se.last) /\ ~Contains(LastNormalized, <<"GC:", " ", "total">>)

\* C1: safe_exec_abc(cmd, retries=N) sends cmd at least once and at most N
\* times; every reply before the last one read is contaminated; a clean
\* reply ends the loop, is the one accepted, and its raw bytes are returned.
C1_SendsUntilFirstClean ==
    se.outcome # "none" =>
        /\ se.sent \in 1..se.retries
        /\ se.dirty >= se.sent - 1
        /\ LastIsClean => se.dirty = se.sent - 1 /\ se.outcome \in {"return", TooShort}
        /\ se.outcome = "return" => LastIsClean /\ se.value = Val(se.last)
        /\ se.outcome = "return" /\ Idle /\ cur.op = "safe_exec_abc" => ret = Val(se.last)

\* C2: the recorded attempt count is the number of attempts made: k when
\* attempt k is the first clean one and the payload is returned, N when all
\* N attempts are contaminated and ABCGarbledRespError is raised.
C2_RecordsAttemptsMade ==
    /\ se.outcome = "return" => last_pyb_ntries = se.sent
    /\ se.outcome = Garbled => last_pyb_ntries = se.retries /\ se.sent = se.retries

\* C3: on an accepted reply ABCTooShortRespError is raised iff minlen is set
\* and the byte length is below it, or nfields is set and differs from the
\* number of $..* tokens; otherwise the raw bytes are returned.  A run that
\* read only contaminated replies never raises ABCTooShortRespError.
C3_TooShortIffGate ==
    se.outcome # "none" =>
        /\ LastIsClean =>
             /\ se.outcome = TooShort <=>
                  \/ ~IsNone(se.minlen) /\ ByteLen(Val(se.last)) < Val(se.minlen)
                  \/ ~IsNone(se.nfields) /\ Len(FindAll(LastNormalized)) # Val(se.nfields)
             /\ se.outcome # TooShort => se.outcome = "return" /\ se.value = Val(se.last)
        /\ ~LastIsClean => se.outcome # TooShort

\* an accepted reply of two tokens where one is expected, long enough
C3_Witness ==
    /\ se.outcome = TooShort
    /\ se.nfields = Some(1) /\ se.minlen = Some(4)
    /\ se.last = Some(Token \o <<CRLF>> \o Token)
    /\ se.dirty = 1

\* C4: with a watermark, no failure of the memory check aborts the command:
\* check_mem_maybe_gcollect always returns, reports no collection when the
\* memory status could not be had, and cmd is sent.
C4_CheckFailureSwallowed ==
    /\ cm.outcome # "none" =>
         /\ cm.outcome = "return"
         /\ cm.mem # "ok" => cm.value = FALSE /\ cm.gc_sent = 0
    /\ se.outcome # "none" /\ ~IsNone(se.watermark) => se.sent >= 1

\* C5 as stated: collection iff the exact percentage alloc/(alloc+free)*100
\* is above the watermark
C5_CollectsIffExactlyAbove ==
    cm.outcome = "return" /\ cm.mem = "ok" =>
        /\ cm.value = (cm.gc_sent = 1)
        /\ cm.gc_sent \in {0, 1}
        /\ cm.gc_sent = 1 <=> cm.alloc * 100000 > cm.watermark * (cm.alloc + cm.free)

\* C5: check_mem_maybe_gcollect(w) sends exactly one collection command and
\* returns True iff the used percentage, rounded to two decimals, is
\* strictly above w; otherwise it sends none and returns False.  With
\* free=1000, alloc=9000: none at w=90, one at w=89.9.
C5_CollectsIffRoundedAbove ==
    cm.outcome = "return" /\ cm.mem = "ok" =>
        /\ cm.value = (cm.gc_sent = 1)
        /\ cm.gc_sent \in {0, 1}
        /\ cm.gc_sent = 1 <=> UsedPct(cm.alloc, cm.alloc + cm.free) > cm.watermark
        /\ cm.free = 1000 /\ cm.alloc = 9000 /\ cm.watermark = 90000 => cm.gc_sent = 0
        /\ cm.free = 1000 /\ cm.alloc = 9000 /\ cm.watermark = 89900 => cm.gc_sent = 1

\* exactly at the watermark: 90 % used, w = 90, nothing collected
C5_Witness ==
    /\ cm.outcome = "return" /\ cm.mem = "ok"
    /\ cm.free = 1000 /\ cm.alloc = 9000 /\ cm.watermark = 90000
    /\ cm.gc_sent = 0 /\ cm.value = FALSE

-----------------------------------------------------------------------------
(* The sampling loop *)

SlowTicks == 5      \* a slow exchange: half the cadence

SensorNames == {SensorCmd(Classes[k]).f : k \in DOMAIN Classes}

LoopSensorReplies(c) ==
    CASE c = "tmp" -> {GoodReply(c), CutReply(c), NoticedReply(c)}
      [] c = "pwr" -> {GoodReply(c), TextReply(c)}
      [] c = "rht" -> {GoodReply(c), NoticedReply(c)}
      [] c = "co2" -> {GoodReply(c)}
      [] c = "htr" -> {GoodReply(c), FewReply(c)}

BoardLoop ==
    [replies |-> [f \in CmdNames |->
                    IF f \in SensorNames THEN LoopSensorReplies(ClassOf(f))
                    ELSE IF f = CmdMemStatus.f
                    THEN {<<"9000", " ", "1000", CRLF>>, <<"x", " ", "x", CRLF>>,
                          <<"1000", CRLF>>}
                    ELSE IF f = CmdGetDatetime.f
                    THEN {ClockReply("17,3,11"), ClockReply("17,3,11-1.2s"),
                          GcMarker \o ClockReply("17,3,11")}
                    ELSE {<<>>}],
     durations |-> [f \in CmdNames |->
                      IF f = SensorCmd("tmp").f THEN {0, SlowTicks} ELSE {0}],
     enter |-> {"ok"},
     db |-> {TRUE},
     file |-> {TRUE}]

\* all classes sampled, or none but power and CO2
LoopConfs ==
    {Conf,
     [Conf EXCEPT !.sample = [c \in DOMAIN Conf.sample |-> c \in {"pwr", "co2"}]]}

InitLoop == \E c \in LoopConfs : InitWith(BoardLoop, c)

\* the run script's loop, abc_run.py, entered once the session is open
CallLoop == upy_status /\ \E consume \in BOOLEAN : Call(FrLoop(consume))

NextLoop ==
    \/ CallUpyIni
    \/ CallLoop
    \/ UpyIniStart
    \/ UpyIniEnter
    \/ UpyIniImport
    \/ SafeExecWatermark
    \/ SafeExecTry
    \/ GetMemStatusCall
    \/ GetMemStatusParse
    \/ CheckMemCall
    \/ CheckMemGarbled
    \/ CheckMemDecide
    \/ GetSensorStart
    \/ GetSensorParse
    \/ SampleFetch
    \/ SampleLog
    \/ SampleFlag
    \/ GetDatetimeStart
    \/ GetDatetimeParse
    \/ CompareDatetimeGet
    \/ CompareDatetimeDelta
    \/ CudCompare
    \/ CudDecide
    \/ CudSetTime
    \/ CudReadBack
    \/ CudDone
    \/ CudGarbled
    \/ LoopStart
    \/ LoopSensors
    \/ LoopFetched
    \/ LoopCaught
    \/ LoopClockChecked
    \/ LoopEnd
    \/ ConsumeMeasure
    \/ ConsumeSleep
    \/ Unwind

SpecLoop == InitLoop /\ [][NextLoop]_vars

-----------------------------------------------------------------------------
(* Properties of the sampling loop *)

\* the loop() iteration of the caller's current call
lp == obs.lp
\* the consume_idle_time that finished in the caller's current call
co == obs.co

RECURSIVE EnabledFrom(_)
EnabledFrom(k) ==
    IF k > Len(Classes) THEN <<>>
    ELSE (IF cfg.sample[Classes[k]] THEN <<Classes[k]>> ELSE <<>>) \o EnabledFrom(k + 1)
\* the classes the configuration enables, in the order of loop()
EnabledClasses == EnabledFrom(1)

\* C6, the counter: every ABCTooShortRespError / ABCGarbledRespError caught
\* in the iteration adds exactly one to cnt_caught_exceptions
C6_CaughtCounted ==
    cur.op = "loop" =>
        cnt_caught_exceptions - lp.cnt0
            = Len(lp.caught) + (IF lp.clock_caught THEN 1 ELSE 0)

\* C6: in a loop() iteration where the fetch of a class raised
\* ABCTooShortRespError or ABCGarbledRespError, the exception is caught and
\* counted once, every enabled class is still sampled and the clock check
\* follows: the iteration ends with all of that done.
C6_FenceKeepsIteration ==
    cur.op = "loop" /\ lp.caught # <<>> =>
        /\ cnt_caught_exceptions - lp.cnt0
             = Len(lp.caught) + (IF lp.clock_caught THEN 1 ELSE 0)
        /\ Idle => lp.fetched = EnabledClasses /\ lp.clock

\* C7: consume_idle_time entered after the deadline adds exactly one to
\* cnt_toolong_loops and does not sleep; entered at or before the deadline
\* it leaves the counter alone and sleeps the time left, up to the deadline.
C7_OverrunCountedSleepClamped ==
    co.done =>
        /\ co.slept >= 0
        /\ co.at > co.deadline => co.counted = 1 /\ co.slept = 0 /\ co.wake = co.at
        /\ co.at <= co.deadline =>
             co.counted = 0 /\ co.slept = co.deadline - co.at /\ co.wake = co.deadline

\* an iteration that ran 5 ticks over its deadline
C7_Witness ==
    co.done /\ co.at = co.deadline + SlowTicks /\ co.counted = 1 /\ cnt_toolong_loops = 1

\* C8: after consume_idle_time the deadline is the wake time plus the
\* cadence: after an overrun of d it is the previous deadline + d + cadence,
\* and it is never earlier than the end of the iteration plus the cadence.
C8_DeadlineFromWake ==
    co.done =>
        /\ t_end = co.wake + cfg.loop_delay
        /\ co.at > co.deadline =>
             t_end = co.deadline + (co.at - co.deadline) + cfg.loop_delay
        /\ Idle /\ lp.ended = "return" => t_end >= now + cfg.loop_delay

\* the iteration has returned after an overrun: the deadline has drifted
C8_Witness ==
    /\ Idle /\ lp.ended = "return" /\ co.done
    /\ co.at > co.deadline
    /\ t_end > co.deadline + cfg.loop_delay

-----------------------------------------------------------------------------
(* The heaters *)

\* a board with two thirds of its memory used, that answers a heater
\* command cleanly or with a collector notice, and the status query well,
\* with a notice, with nine temperatures, with nine objectives or with
\* text for a number
BoardHeater ==
    [replies |-> [f \in CmdNames |->
                    IF f = "h.activate" THEN {<<>>, GcMarker}
                    ELSE IF f = SensorCmd("htr").f
                    THEN {GoodReply("htr"), IdleReply, NoticedReply("htr"),
                          FewReply("htr"), ShortObjReply, TextReply("htr")}
                    ELSE IF f = CmdMemStatus.f
                    THEN {<<"1", " ", "2", CRLF>>}
                    ELSE {<<>>}],
     durations |-> [f \in CmdNames |-> {0}],
     enter |-> {"ok"},
     db |-> {TRUE},
     file |-> {TRUE}]

InitHeater == InitWith(BoardHeater, Conf)

\* heater indices a caller passes: the first, the last, one out of range, None
HeaterIdxs == {Some(0), Some(NUM_HEATERS - 1), Some(NUM_HEATERS), None}

CallHeatersIni == Call(FrHeatersIni)

CallSetHeaterActive ==
    \E state \in BOOLEAN, idx \in HeaterIdxs, warn \in {None, Some(1), Some(2)},
       clear \in BOOLEAN :
      Call(FrSetHeaterActive(state, idx, warn, clear))

CallHeaterActivate == \E idx \in HeaterIdxs : Call(FrHeaterActivate(idx, None))

CallHeaterDeactivate == \E idx \in HeaterIdxs : Call(FrHeaterDeactivate(idx))

CallDeactivateAll == Call(FrDeactivateAll)

CallSetObjective == \E idx \in HeaterIdxs : Call(FrSetObjective(idx, 30))

CallAccessor ==
    \E which \in {"objective", "active", "avg_temp", "pwm"}, idx \in HeaterIdxs :
      Call(FrAccessor(which, idx))

CallGetHeatersStatus == Call(FrGetter("htr"))

NextHeater ==
    \/ CallHeatersIni
    \/ CallGetHeatersStatus
    \/ CallSetHeaterActive
    \/ CallHeaterActivate
    \/ CallHeaterDeactivate
    \/ CallDeactivateAll
    \/ CallSetObjective
    \/ CallAccessor
    \/ UpyIniStart
    \/ UpyIniEnter
    \/ UpyIniImport
    \/ SafeExecWatermark
    \/ SafeExecTry
    \/ GetMemStatusCall
    \/ GetMemStatusParse
    \/ CheckMemCall
    \/ CheckMemDecide
    \/ CheckMemCollect
    \/ GetSensorStart
    \/ GetSensorExec
    \/ GetSensorParse
    \/ HeatersIniStart
    \/ HeatersIniMem
    \/ HeatersIniLoop
    \/ HeatersIniSleep
    \/ HeatersIniDone
    \/ AccessorStart
    \/ AccessorStatus
    \/ AccessorGarbled
    \/ AccessorPick
    \/ SetHeaterStart
    \/ SetHeaterState
    \/ SetHeaterObjective
    \/ SetHeaterOn
    \/ SetHeaterOff
    \/ HeaterActivateStart
    \/ HeaterActivateDecide
    \/ HeaterActivateDone
    \/ HeaterDeactivateStart
    \/ HeaterDeactivateDecide
    \/ DeactivateAllLoop
    \/ DeactivateAllSleep
    \/ DeactivateAllDisable
    \/ DeactivateAllDone
    \/ DisableGlobalExec
    \/ DisableGlobalDone
    \/ ResetObjectivesExec
    \/ ResetObjectivesDone
    \/ SetObjectiveStart
    \/ SetObjectiveExec
    \/ SetObjectiveDone
    \/ Unwind

SpecHeater == InitHeater /\ [][NextHeater]_vars

-----------------------------------------------------------------------------
(* Properties of the heater operations *)

\* what heaters_deactivate_all is to put on the wire: h.activate(False, i)
\* for i = 0..9, h.objective(<default>, idx=None), h.activate(False)
DeactivateAllWire ==
    [k \in 1..NUM_HEATERS |-> CmdActivate(FALSE, Some(k - 1))]
    \o <<CmdObjective(cfg.heater_def_tmp, None), CmdActivate(FALSE, None)>>

\* C9: a call of heaters_deactivate_all, whatever heaters_status was, puts
\* on the wire exactly the ten individual deactivations in ascending order,
\* each at least 100 ms after the one before, then one reset of all
\* objectives, then one global disable; heaters_status is False afterwards.
C9_DeactivateAllWire ==
    Idle /\ cur.op = "heaters_deactivate_all" =>
        /\ obs.wire = DeactivateAllWire
        /\ ~obs.resent
        /\ obs.call_spaced
        /\ ~heaters_status

\* C10: over every sequence of heater operations, their retries included,
\* no command deactivates more than one actuator and two consecutive
\* individual deactivations are at least 100 ms apart.
C10_DeactivationsSpaced ==
    /\ \A k \in DOMAIN obs.wire :
          IsDeactivate(obs.wire[k]) => Len(obs.wire[k].idx) = 1
    /\ obs.spacing_ok

\* what heaters_ini is to put on the wire: h.activate(False, i) for
\* i = 0..9, then h.activate(True)
HeatersIniWire ==
    [k \in 1..NUM_HEATERS |-> CmdActivate(FALSE, Some(k - 1))]
    \o <<CmdActivate(TRUE, None)>>

\* C11: heaters_ini with heaters_status False sends the ten individual
\* deactivations in ascending order, each followed by at least 100 ms, then
\* the global enable exactly once, and only then sets heaters_status; with
\* heaters_status True it sends no command and changes nothing.
C11_HeatersIniWire ==
    Idle /\ cur.op = "heaters_ini" =>
        IF obs.heaters_status0
        THEN /\ exc = "none" /\ heaters_status
             /\ obs.wire = <<>> /\ se.outcome = "none" /\ cm.outcome = "none"
        ELSE /\ exc = "none" =>
                  /\ obs.wire = HeatersIniWire
                  /\ ~obs.resent
                  /\ obs.call_spaced
                  /\ heaters_status
             /\ exc # "none" => ~heaters_status

\* C12: set_heater_active with an index outside 0..9 or None returns False,
\* raises nothing, sends nothing, does not run heaters_ini and leaves
\* heaters_status alone; get_heaters_objective with an index outside 0..9
\* returns _HTR_IDX_INVALID and raises nothing.
C12_InvalidIndexRejected ==
    /\ Idle /\ cur.op = "set_heater_active" /\ ~IsValidHeater(cur.l.idx) =>
          /\ exc = "none" /\ ret = FALSE
          /\ se.outcome = "none" /\ cm.outcome = "none" /\ obs.wire = <<>>
          /\ heaters_status = obs.heaters_status0
    /\ Idle /\ cur.op = "get_heaters" /\ cur.l.which = "objective"
          /\ ~IsNone(cur.l.idx) /\ ~IsValidHeater(cur.l.idx) =>
          /\ exc = "none"
          /\ ret = Result("code", HTR_IDX_INVALID)

\* C13: set_heater_active(True, idx, warn_below_deg=w) with a valid idx
\* whose objective reads below w still sends h.activate(True, idx) and
\* returns True: the warning does not block the activation.
C13_LowObjectiveStillActivates ==
    /\ Idle /\ cur.op = "set_heater_active" /\ cur.l.state
    /\ IsValidHeater(cur.l.idx) /\ ~IsNone(cur.l.warn)
    /\ ~IsNone(obs.h_t_obj) /\ Val(obs.h_t_obj).kind = "value"
    /\ Val(obs.h_t_obj).v < Val(cur.l.warn)
    => /\ exc = "none"
       /\ ret = TRUE
       /\ obs.wire # <<>>
       /\ obs.wire[Len(obs.wire)] = CmdActivate(TRUE, cur.l.idx)

\* the four vectors of a status reply: average temperature, objective,
\* status, pwm
HtrVectors(m) == <<Tail(m[1]), m[2], m[3], m[4]>>

\* the tokens of the reply get_heaters_status accepted last
HtrTokens == FindAll(SensorText("htr", Val(se.last)))

\* C14: get_heaters_status lets ABCGarbledRespError reach its caller when
\* the reply is contaminated; when one of the four vectors has other than
\* 10 entries it returns the all-False list and raises nothing; either way
\* the fresh-data flag stays False and last_htr_data is not up to date.
C14_StatusFailuresFlagged ==
    Idle /\ cur.op = "get_sensor" /\ cur.l.c = "htr"
         /\ se.cmd = SensorCmd("htr") /\ se.outcome # "none" =>
        /\ se.outcome = Garbled =>
              exc = Garbled /\ ~newdata2csv["htr"] /\ ~htr_up_to_date
        /\ se.outcome = "return" /\ Len(HtrTokens) = 4
              /\ (\A k \in 1..4 : IsNumbers(HtrVectors(HtrTokens)[k]))
              /\ (\E k \in 1..4 : NumbersIn(HtrVectors(HtrTokens)[k]) # NUM_HEATERS) =>
              /\ exc = "none"
              /\ ret.out = "stale"
              /\ ~newdata2csv["htr"] /\ ~htr_up_to_date

\* C15: an accessor returns the scalar for a valid index, the vector for
\* idx None and a sentinel code only for an invalid index; a contaminated
\* status query reaches the caller as ABCGarbledRespError, and a valid
\* index makes an accessor raise nothing else.
C15_AccessorResults ==
    Idle /\ cur.op = "get_heaters" /\ se.cmd = SensorCmd("htr") =>
        /\ se.outcome = Garbled => exc = Garbled
        /\ IsValidHeater(cur.l.idx) =>
              /\ exc \in {"none", Garbled}
              /\ exc = "none" => ret.kind = "value"
        /\ IsNone(cur.l.idx) /\ exc = "none" => ret.kind \in {"vector", "false"}
        /\ exc = "none" /\ ret.kind = "code" =>
              ~IsNone(cur.l.idx) /\ ~IsValidHeater(cur.l.idx)

-----------------------------------------------------------------------------
(* The clock check *)

\* a reply to the clock query shorter than its 19 bytes
ShortClockReply == <<"$", "$", "x", "*", "*", CRLF>>

\* a board whose clock is on time, 1.2 s or 2 s behind, whose reply to the
\* clock query may be short or carry a collector notice, that may answer
\* the set commands and the last import with a notice, and that may take
\* 3 s over the first import and over the clock query
BoardClock ==
    [replies |-> [f \in CmdNames |->
                    IF f = CmdGetDatetime.f
                    THEN {ClockReply(w) : w \in ClockLexemes}
                         \cup {GcMarker \o ClockReply("17,3,11"), ShortClockReply}
                    ELSE IF f \in {CmdSetDate.f, CmdSetTime.f, ImportCmds[Len(ImportCmds)]}
                    THEN {<<>>, GcMarker}
                    ELSE IF f = CmdMemStatus.f
                    THEN {<<"1", " ", "2", CRLF>>}
                    ELSE {<<>>}],
     durations |-> [f \in CmdNames |->
                      IF f \in {ImportCmds[1], CmdGetDatetime.f}
                      THEN {0, AlarmTicks} ELSE {0}],
     enter |-> {"ok"},
     db |-> {TRUE},
     file |-> {TRUE}]

\* no class is sampled; the debug messages are off or on
ClockConfs ==
    {[Conf EXCEPT !.sample = [c \in DOMAIN Conf.sample |-> FALSE], !.verb_debug = v] :
        v \in BOOLEAN}

InitClock == \E c \in ClockConfs : InitWith(BoardClock, c)

CallCheckUpdateDatetime == Call(FrCud)

NextClock ==
    \/ CallUpyIni
    \/ CallCheckUpdateDatetime
    \/ CallLoop
    \/ UpyIniStart
    \/ UpyIniEnter
    \/ UpyIniImport
    \/ SafeExecWatermark
    \/ SafeExecTry
    \/ GetMemStatusCall
    \/ GetMemStatusParse
    \/ CheckMemCall
    \/ CheckMemDecide
    \/ GetDatetimeStart
    \/ GetDatetimeExec
    \/ GetDatetimeTimedOut
    \/ GetDatetimeParse
    \/ CompareDatetimeGet
    \/ CompareDatetimeDelta
    \/ CudCompare
    \/ CudDecide
    \/ CudSetTime
    \/ CudReadBack
    \/ CudDone
    \/ CudGarbled
    \/ LoopStart
    \/ LoopSensors
    \/ LoopClockChecked
    \/ LoopEnd
    \/ ConsumeMeasure
    \/ ConsumeSleep
    \/ Unwind

SpecClock == InitClock /\ [][NextClock]_vars

-----------------------------------------------------------------------------
(* Properties of the clock check *)

\* the clock check of the caller's current call
ck == obs.ck

\* a check_update_datetime, called directly or by loop(), that has ended
\* after compare_datetime measured the drift
DriftMeasured ==
    /\ Idle /\ cur.op \in {"check_update_datetime", "loop"}
    /\ ~IsNone(ck.delta) /\ ~ck.timed_out

SetDateThenTime == <<CmdSetDate.f, CmdSetTime.f>>

C17_ClockCheckNotFatal ==
    /\ ~(Len(stack) > 0 /\ Top.pc = "compare_datetime.pcb" /\ exc = TimedOut)
    /\ ck.timed_out /\ ~IsNone(ck.delta) =>
          Val(ck.delta) = 0 /\ (cfg.tol_clockdrift > 0 => ck.wire = <<>>)
    /\ ~(Len(stack) > 0 /\ Top.pc = "loop.clock" /\ exc = Garbled)
    /\ Idle /\ cur.op = "check_update_datetime" => exc # Garbled
    /\ Idle /\ cur.op = "loop" /\ lp.clock_caught =>
          /\ exc = "none" /\ lp.ended = "return" /\ (cur.l.consume => co.done)
          /\ cnt_caught_exceptions - lp.cnt0 = 1

-----------------------------------------------------------------------------
(* The to-inject file *)

\* a board that answers well, with a collector notice or with nine
\* temperatures, a database that may refuse a write and a file that may
\* refuse an append
BoardDump ==
    [replies |-> [f \in CmdNames |->
                    IF f = SensorCmd("pwr").f THEN {GoodReply("pwr"), NoticedReply("pwr")}
                    ELSE IF f = SensorCmd("htr").f THEN {GoodReply("htr"), FewReply("htr")}
                    ELSE IF f = CmdMemStatus.f
                    THEN {<<"1", " ", "2", CRLF>>}
                    ELSE {<<>>}],
     durations |-> [f \in CmdNames |-> {0}],
     enter |-> {"ok"},
     db |-> {TRUE, FALSE},
     file |-> {TRUE, FALSE}]

InitDump == InitWith(BoardDump, [Conf EXCEPT !.log2db = TRUE])

CallSample == \E c \in {"pwr", "htr"} : Call(FrSample(c))
CallDumpPoint == Call(FrDump(1))

NextDump ==
    \/ CallUpyIni
    \/ CallSample
    \/ CallDumpPoint
    \/ UpyIniStart
    \/ UpyIniEnter
    \/ UpyIniImport
    \/ SafeExecWatermark
    \/ SafeExecTry
    \/ GetMemStatusCall
    \/ GetMemStatusParse
    \/ CheckMemCall
    \/ CheckMemDecide
    \/ GetSensorStart
    \/ GetSensorExec
    \/ GetSensorParse
    \/ SampleFetch
    \/ SampleLog
    \/ DumpPoint
    \/ SampleFlag
    \/ Unwind

SpecDump == InitDump /\ [][NextDump]_vars

\* the dump_point_to_file calls of the caller's current call
dp == obs.dp

\* C18: every dump_point_to_file adds exactly one to cnt_dumped_points and
\* either appends its record or, the append failing, adds exactly one to
\* cnt_caught_exceptions; no exception leaves it, no point is dumped
\* twice, and the sampling operation that called it returns normally.
C18_DumpFailureCounted ==
    /\ cnt_dumped_points - dp.dumped0 = dp.calls
    /\ cnt_caught_exceptions - dp.caught0 = dp.calls - dp.appended
    /\ dp.appended \in 0..dp.calls
    /\ dp.calls > 0 /\ cur.op = "dump_point_to_file" => dp.calls = 1 /\ exc = "none"
    /\ dp.calls > 0 /\ cur.op = "sample_sensors" =>
          /\ exc = "none"
          /\ dp.calls <= (IF cur.l.c = "htr" THEN NUM_HEATERS ELSE 1)
          /\ Idle => dp.calls = (IF cur.l.c = "htr" THEN NUM_HEATERS ELSE 1)

\* a sample_heaters that has returned after the file refused some of its
\* ten points
C18_Witness ==
    /\ Idle /\ cur.op = "sample_sensors" /\ cur.l.c = "htr" /\ exc = "none"
    /\ dp.calls = NUM_HEATERS /\ dp.appended \in 1..(NUM_HEATERS - 1)
    /\ cnt_caught_exceptions - dp.caught0 = NUM_HEATERS - dp.appended

-----------------------------------------------------------------------------
(* BackoffCtr on its own *)

\* per_level and max_count a counter is made with; the first pair is the
\* default
BackoffParams == {<<1, 360>>, <<2, 5>>, <<3, 8>>, <<1, 1>>}

\* the counter under study stands in the slot of the temperature class
ctr == cntr_wrn["tmp"]

InitBackoff ==
    \E p \in BackoffParams :
        InitWith(BoardExec, Conf @@ [per_level |-> p[1], max_count |-> p[2]])

\* hit(), or hitwarn() that calls it
HitAs(op) ==
    /\ Idle /\ obs.bk.k < MaxHits
    /\ cntr_wrn' = [cntr_wrn EXCEPT !["tmp"] = Hit(@, cfg.per_level, cfg.max_count)]
    /\ ret' = HitReturns(ctr, cfg.per_level)
    /\ obs' = [obs EXCEPT !.bk.k = @ + 1,
                          !.bk.since = IF HitReturns(ctr, cfg.per_level) THEN 0
                                       ELSE @ + 1]
    /\ cur' = [op |-> op, l |-> <<>>]
    /\ UNCHANGED <<stack, exc, now, alarm, upy_status, heaters_status, counters,
                   timer, dbg, mem_usage, newdata2csv, htr_up_to_date, cfg,
                   board, calls>>

\* reset(), or hitok() that calls it
ResetAs(op) ==
    /\ Idle
    /\ cntr_wrn' = [cntr_wrn EXCEPT !["tmp"] = BackoffReset(@)]
    /\ ret' = TRUE
    /\ obs' = [obs EXCEPT !.bk = [k |-> 0, since |-> 0, was_reset |-> TRUE]]
    /\ cur' = [op |-> op, l |-> <<>>]
    /\ UNCHANGED <<stack, exc, now, alarm, upy_status, heaters_status, counters,
                   timer, dbg, mem_usage, newdata2csv, htr_up_to_date, cfg,
                   board, calls>>

CtrHit == HitAs("hit")
CtrHitwarn == HitAs("hitwarn")
CtrReset == ResetAs("reset")
CtrHitok == ResetAs("hitok")

NextBackoff ==
    \/ CtrHit
    \/ CtrHitwarn
    \/ CtrReset
    \/ CtrHitok

SpecBackoff == InitBackoff /\ [][NextBackoff]_vars

\* the counter's own record of its use
bk == obs.bk

\* the last call was a hit() or hitwarn() on a counter made with the defaults
DefaultCtrHit ==
    /\ cur.op \in {"hit", "hitwarn"}
    /\ cfg.per_level = 1 /\ cfg.max_count = 360

LevelExps == 0..10

\* C19 as stated: hit() returns True exactly at calls 1, 2, 4, 8, 16, ...
C19_TrueAtPowersOfTwo ==
    DefaultCtrHit =>
        /\ ret = (bk.k \in {2 ^ j : j \in LevelExps})
        /\ bk.since < 360

\* calls at which hit() returns True: 1, 3, 7, ..., 511, then every 360th
HitCalls ==
    {2 ^ j - 1 : j \in 1..9} \cup {511 + 360 * j : j \in 1..MaxHits}

\* C19: counting hit() calls from construction or the last reset() of a
\* BackoffCtr(per_level=1, max_count=360), hit() returns True exactly at
\* calls 1, 3, 7, 15, ..., 511 (gaps 2, 4, ..., 256) and then at every
\* 360th call; fewer than 360 calls in a row return False, and the first
\* hit() after reset() returns True.
C19_TrueAfterDoublingGaps ==
    DefaultCtrHit =>
        /\ ret = (bk.k \in HitCalls)
        /\ bk.since < 360
        /\ bk.k = 1 => ret = TRUE

\* after a reset the seventh hit() returns True
C19_Witness ==
    DefaultCtrHit /\ bk.was_reset /\ bk.k = 7 /\ ret = TRUE /\ ctr.cur_level = 8

\* reset() and hitok() leave level 1 and count 0; the count is below the
\* threshold
CountBelowThreshold ==
    /\ ctr.cur_level <= cfg.max_count
    /\ ctr.n >= 0 /\ ctr.n < ctr.cur_level * cfg.per_level
    /\ cur.op \in {"reset", "hitok"} => ctr = [n |-> 0, cur_level |-> 1]

\* C20 as stated: the level is per_level times a power of two, or max_count
C20_LevelMultipleOfPerLevel ==
    /\ \E j \in LevelExps : ctr.cur_level = Min({cfg.per_level * 2 ^ j, cfg.max_count})
    /\ CountBelowThreshold

\* C20: after any sequence of hit(), hitwarn(), hitok() and reset() the
\* level is a power of two capped at max_count (so the threshold
\* cur_level*per_level is that multiple of per_level), _n is below the
\* threshold, and reset() and hitok() leave level 1 and count 0.
C20_LevelPowerOfTwoCapped ==
    /\ \E j \in LevelExps : ctr.cur_level = Min({2 ^ j, cfg.max_count})
    /\ CountBelowThreshold

\* a counter made with per_level 2 that has reached its cap of 5 and was
\* hit again
C20_Witness ==
    /\ cur.op = "hitwarn" /\ cfg.per_level = 2
    /\ ctr.cur_level = cfg.max_count /\ ctr.cur_level = 5 /\ ctr.n > 0

-----------------------------------------------------------------------------
(* Properties of the session *)

\* C21: once entering the raw REPL has run into the deadline of upy_ini,
\* the call does not try to enter again, sends no command, leaves
\* upy_status False and does not return normally.
C21_ConnectTimeoutFatal ==
    cur.op = "upy_ini" /\ obs.ini_timed_out =>
        /\ ~upy_status
        /\ se.outcome = "none"
        /\ \A k \in DOMAIN stack :
              stack[k].pc \notin {"upy_ini.enter", "safe_exec_abc", "safe_exec_abc.try"}
        /\ Idle => exc = TimedOut

-----------------------------------------------------------------------------
(* The run script, runtime_tools/abc_run.py *)

MaxIters == 2       \* iterations of `while True` the script is followed for

\* abc_run.py line 20: the script about to enter its try block; pending is
\* the exception the finally block re-raises on its way out
FrMain == Frame("main", [iter |-> 0, r |-> 1, pending |-> "none"])

\* line 21: first_conn opens the session in get_mcu_id (libabc.py lines
\* 1574-1575); the identity queries that follow are not part of the model
MainFirstConn ==
    /\ Running("main")
    /\ stack' = CallFrom("main.conn", Top.l, FrUpyIni)
    /\ UNCHANGED <<exc, ret, now, alarm, upy_status, heaters_status, counters,
                   timer, dbg, mem_usage, samples, caller, obs>>

\* line 23 and libabc.py line 343: prepare_heaters calls heaters_ini
MainPrepare ==
    /\ Running("main.conn")
    /\ stack' = CallFrom("main.ini", Top.l, FrHeatersIni)
    /\ UNCHANGED <<exc, ret, now, alarm, upy_status, heaters_status, counters,
                   timer, dbg, mem_usage, samples, caller, obs>>

\* libabc.py line 348: then reset_htr_objectives
MainReset ==
    /\ Running("main.ini")
    /\ stack' = CallFrom("main.readback", Top.l, FrResetObjectives)
    /\ UNCHANGED <<exc, ret, now, alarm, upy_status, heaters_status, counters,
                   timer, dbg, mem_usage, samples, caller, obs>>

ReadBack == <<"active", "avg_temp", "objective">>

\* libabc.py lines 350-354: the three accessors are read back and logged;
\* abc_run.py lines 25-30: no heater is configured active
MainReadBack ==
    /\ Running("main.readback")
    /\ LET r == Top.l.r
       IN  stack' = IF r > Len(ReadBack)
                    THEN Jump("main.while", Top.l)
                    ELSE CallFrom("main.readback", [Top.l EXCEPT !.r = r + 1],
                                  FrAccessor(ReadBack[r], None))
    /\ UNCHANGED <<exc, ret, now, alarm, upy_status, heaters_status, counters,
                   timer, dbg, mem_usage, samples, caller, obs>>

\* lines 32-37: the next iteration of `while True` calls loop()
MainLoop ==
    /\ Running("main.while")
    /\ Top.l.iter < MaxIters
    /\ stack' = CallFrom("main.loop", Top.l, FrLoop(TRUE))
    /\ obs' = [obs EXCEPT !.lp = [NoLoop EXCEPT !.cnt0 = cnt_caught_exceptions,
                                                !.i0 = i],
                          !.co = NoConsume, !.ck = NoClock,
                          !.run.unslept = @ \/ (Top.l.iter > 0 /\ ~obs.co.done)]
    /\ UNCHANGED <<exc, ret, now, alarm, upy_status, heaters_status, counters,
                   timer, dbg, mem_usage, samples, caller>>

\* loop() returned
MainLooped ==
    /\ Running("main.loop")
    /\ stack' = Jump("main.while", [Top.l EXCEPT !.iter = @ + 1])
    /\ UNCHANGED <<exc, ret, now, alarm, upy_status, heaters_status, counters,
                   timer, dbg, mem_usage, samples, caller, obs>>

\* libui.handle_known_exceptions, libui.py lines 13-67: True unless the
\* exception is one of the two of the handle or its message holds "GC:" or
\* "exception int() argument must be a"; the messages of Python's own
\* exceptions hold the second text never and the first only when the reply
\* parsed held a collector notice
IsBadErr(e) == e \notin {TooShort, Garbled}

\* lines 38-41: `except Exception as e` around loop(); process_exception
\* (libui.py lines 140-160) re-raises a bad error, which leaves the while
\* loop for the finally block, and logs any other
MainCaught ==
    /\ Len(stack) > 0 /\ Top.pc = "main.loop" /\ exc \in Exceptions
    /\ exc' = "none"
    /\ IF IsBadErr(exc)
       THEN /\ stack' = Jump("main.finally", [Top.l EXCEPT !.pending = exc])
            /\ obs' = [obs EXCEPT !.run.fatal = exc]
       ELSE /\ stack' = Jump("main.while", [Top.l EXCEPT !.iter = @ + 1])
            /\ obs' = [obs EXCEPT !.run.harmless = @ \cup {exc}]
    /\ UNCHANGED <<ret, now, alarm, upy_status, heaters_status, counters, timer,
                   dbg, mem_usage, samples, caller>>

\* lines 43-46: ctrl-c is caught and logged; an exception of the start-up
\* lines 21-30 stays pending over the finally block
MainAbort ==
    /\ Len(stack) > 0 /\ Top.pc \in MainTryLabels
    /\ exc # "none"
    /\ Top.pc = "main.loop" => exc = KeyboardInt
    /\ exc' = "none"
    /\ stack' = Jump("main.finally",
                     [Top.l EXCEPT !.pending = IF exc = KeyboardInt THEN "none"
                                               ELSE exc])
    /\ obs' = [obs EXCEPT !.run.interrupted = @ \/ exc = KeyboardInt]
    /\ UNCHANGED <<ret, now, alarm, upy_status, heaters_status, counters, timer,
                   dbg, mem_usage, samples, caller>>

\* lines 46-53: the finally block deactivates the heaters
MainFinally ==
    /\ Running("main.finally")
    /\ stack' = CallFrom("main.deact", Top.l, FrDeactivateAll)
    /\ UNCHANGED <<exc, ret, now, alarm, upy_status, heaters_status, counters,
                   timer, dbg, mem_usage, samples, caller, obs>>

\* line 55 and libabc.py lines 1278-1304, 1345-1349: stop() closes the
\* session when one is open and reports the counts; the script ends, with
\* the pending exception if there is one
MainStop ==
    /\ Running("main.deact")
    /\ upy_status' = FALSE
    /\ obs' = [obs EXCEPT !.run.stopped = TRUE,
                          !.run.report = <<i, cnt_caught_exceptions,
                                           cnt_toolong_loops, cnt_dumped_points>>]
    /\ stack' = Pop
    /\ exc' = Top.l.pending
    /\ ret' = None
    /\ UNCHANGED <<now, alarm, heaters_status, counters, timer, dbg, mem_usage,
                   samples, caller>>

\* an exception leaves heaters_deactivate_all: nothing in the finally block
\* catches it
MainDeactRaised ==
    /\ Len(stack) > 0 /\ Top.pc = "main.deact" /\ exc # "none"
    /\ stack' = Pop
    /\ obs' = [obs EXCEPT !.run.deact_raised = TRUE]
    /\ UNCHANGED <<exc, ret, now, alarm, upy_status, heaters_status, counters,
                   timer, dbg, mem_usage, samples, caller>>

\* ctrl-c while the script waits between two iterations
Interrupt ==
    /\ Running("main.while")
    /\ exc' = KeyboardInt
    /\ UNCHANGED <<stack, ret, now, alarm, upy_status, heaters_status, counters,
                   timer, dbg, mem_usage, samples, caller, obs>>

\* a board that may answer a heater command with a collector notice, the
\* power query with text for a number and the clock query with a short
\* reply
BoardRun ==
    [replies |-> [f \in CmdNames |->
                    IF f = "h.activate" THEN {<<>>, GcMarker}
                    ELSE IF f = SensorCmd("pwr").f
                    THEN {GoodReply("pwr"), TextReply("pwr")}
                    ELSE IF f = SensorCmd("htr").f THEN {GoodReply("htr")}
                    ELSE IF f = CmdGetDatetime.f
                    THEN {ClockReply("17,3,11"), ShortClockReply}
                    ELSE IF f = CmdMemStatus.f
                    THEN {<<"1", " ", "2", CRLF>>}
                    ELSE {<<>>}],
     durations |-> [f \in CmdNames |-> {0}],
     enter |-> {"ok"},
     db |-> {TRUE},
     file |-> {TRUE}]

\* the configuration samples the power sensor only
ConfRun == [Conf EXCEPT !.sample = [c \in DOMAIN Conf.sample |-> c = "pwr"]]

InitRun == InitWith(BoardRun, ConfRun)

CallMain == calls = 0 /\ Call(FrMain)

NextRun ==
    \/ CallMain
    \/ MainFirstConn
    \/ MainPrepare
    \/ MainReset
    \/ MainReadBack
    \/ MainLoop
    \/ MainLooped
    \/ MainCaught
    \/ MainAbort
    \/ MainFinally
    \/ MainStop
    \/ MainDeactRaised
    \/ Interrupt
    \/ UpyIniStart
    \/ UpyIniEnter
    \/ UpyIniImport
    \/ SafeExecWatermark
    \/ SafeExecTry
    \/ GetMemStatusCall
    \/ GetMemStatusParse
    \/ CheckMemCall
    \/ CheckMemDecide
    \/ GetSensorStart
    \/ GetSensorParse
    \/ SampleFetch
    \/ SampleLog
    \/ SampleFlag
    \/ GetDatetimeStart
    \/ GetDatetimeParse
    \/ CompareDatetimeGet
    \/ CompareDatetimeDelta
    \/ CudCompare
    \/ CudDecide
    \/ LoopStart
    \/ LoopSensors
    \/ LoopFetched
    \/ LoopClockChecked
    \/ LoopEnd
    \/ ConsumeMeasure
    \/ ConsumeSleep
    \/ CheckMemCollect
    \/ HeatersIniStart
    \/ HeatersIniLoop
    \/ HeatersIniSleep
    \/ HeatersIniDone
    \/ AccessorStart
    \/ AccessorPick
    \/ SetHeaterStart
    \/ SetHeaterState
    \/ SetHeaterOff
    \/ DeactivateAllLoop
    \/ DeactivateAllSleep
    \/ DeactivateAllDisable
    \/ DeactivateAllDone
    \/ DisableGlobalExec
    \/ DisableGlobalDone
    \/ ResetObjectivesExec
    \/ ResetObjectivesDone
    \/ Unwind

SpecRun == InitRun /\ [][NextRun]_vars

\* the run of the script the caller started
run == obs.run

\* C22: when the run script has ended, by ctrl-c, by a fatal exception that
\* left the while loop or by an error of heaters_deactivate_all in the
\* finally block, stop() has run: the session is closed and the counts
\* reported are those of the handle.
C22_StopAlwaysExecuted ==
    cur.op = "main" /\ Idle =>
        /\ run.stopped
        /\ ~upy_status
        /\ run.report = <<i, cnt_caught_exceptions, cnt_toolong_loops,
                          cnt_dumped_points>>

\* C23: once the session is open no exception that leaves loop() ends the
\* run script: it is logged and the next iteration follows.
C23_NoLoopErrorHalts ==
    cur.op = "main" => run.fatal = "none"

-----------------------------------------------------------------------------
(* The tokenizer *)

MaxText == 5        \* lexemes of a text handed to the tokenizer

\* the example of testing/libdbg.py and of the board's documentation
ExampleReply ==
    <<"$", "(2021, 8, 13),(10, 14, 47)", "*", "$", "57.9,", "*", "$", "26.0,", "*",
      "$", "m,p,m", "*", "$", "True,", "*", "*">>

\* every text of up to MaxText lexemes over "$", "*", a line end and other
\* text, and the example
TokInputs ==
    UNION {[1..n -> {"$", "*", "x", CRLF}] : n \in 0..MaxText} \cup {ExampleReply}

\* a board that answers with one given text
BoardTok(text) ==
    [BoardExec EXCEPT !.replies = [f \in CmdNames |-> {text}],
                      !.durations = [f \in CmdNames |-> {0}],
                      !.enter = {"ok"}]

InitTok == \E text \in TokInputs : InitWith(BoardTok(text), Conf)

\* decode_abc_pkt(raw), testing/libdbg.py lines 107-109, on the board's text
DecodeAbcPkt ==
    /\ Idle
    /\ calls < MaxCalls
    /\ \E raw \in board.replies[AnyCmd.f] :
         /\ cur' = [op |-> "decode_abc_pkt", l |-> [raw |-> raw]]
         /\ ret' = FindAll(raw)
    /\ calls' = calls + 1
    /\ obs' = ObsCall(obs)
    /\ UNCHANGED <<stack, exc, now, alarm, upy_status, heaters_status, counters,
                   timer, dbg, mem_usage, samples, cfg, board>>

NextTok == DecodeAbcPkt

SpecTok == InitTok /\ [][NextTok]_vars

\* the least b that closes a group opened at a
CloseOf(text, a) == Min({b \in 1..Len(text) : Closes(text, a, b)})

\* m holds, in order, the groups opened at the positions in S
GroupsOf(text, S, m) ==
    /\ Len(m) = Cardinality(S)
    /\ \A a \in S :
          m[1 + Cardinality({s \in S : s < a})] = SubSeq(text, a + 1, CloseOf(text, a) - 1)

\* S holds the "$" that open a group: each can be closed and lies in no
\* earlier group, delimiters included
Leftmost(text, S) ==
    \A a \in 1..Len(text) :
      a \in S <=> /\ \E b \in 1..Len(text) : Closes(text, a, b)
                  /\ ~\E s \in S : s < a /\ a <= CloseOf(text, s)

\* C24: the tokenizer changes nothing of the handle and returns, in order
\* of occurrence, the text between each opening "$" and the first "*" that
\* closes it, the two delimiters left out; a text without such a pair gives
\* the empty list; the example gives 5 tokens, the first the date and time.
C24_TokensInOrder ==
    cur.op = "decode_abc_pkt" =>
        LET text == cur.l.raw
        IN  /\ \E S \in SUBSET {a \in 1..Len(text) : text[a] = "$"} :
                  Leftmost(text, S) /\ GroupsOf(text, S, ret)
            /\ (~\E a, b \in 1..Len(text) : Closes(text, a, b)) => ret = <<>>
            /\ text = ExampleReply =>
                  Len(ret) = 5 /\ ret[1] = <<"(2021, 8, 13),(10, 14, 47)">>
            /\ exc = "none"
            /\ last_pyb_resp = <<>> /\ last_pyb_fields = <<>> /\ i = 0

C24_Witness ==
    /\ cur.op = "decode_abc_pkt" /\ cur.l.raw = ExampleReply
    /\ Len(ret) = 5

-----------------------------------------------------------------------------
(* Properties of the heater objectives and of the deactivation of one heater *)

\* the positions of the objective commands on the wire of the current call
ObjectivesSent == {k \in DOMAIN obs.wire : obs.wire[k].f = "h.objective"}

\* C25: set_heater_objective with idx None writes the objective to all ten
\* heaters, as reset_htr_objectives does with `h.objective(t, idx=None)`,
\* and returns True; with a valid idx it writes that heater's objective only.
C25_ObjectiveNoneMeansAll ==
    cur.op = "set_heater_objective" /\ Idle /\ exc = "none"
    /\ (IsNone(cur.l.idx) \/ IsValidHeater(cur.l.idx)) =>
        /\ ret = TRUE
        /\ ObjectivesSent # {}
        /\ \A k \in ObjectivesSent : obs.wire[k] = CmdObjective(cur.l.t, cur.l.idx)

\* what set_heater_active(False, idx, clear_t_obj) is to put on the wire
DeactivateWire(l) ==
    <<CmdActivate(FALSE, l.idx)>>
    \o (IF l.clear THEN <<CmdObjective(cfg.heater_def_tmp, l.idx)>> ELSE <<>>)

IsPrefix(u, v) == Len(u) <= Len(v) /\ u = SubSeq(v, 1, Len(u))

C27_WitnessKept ==
    /\ cur.op = "set_heater_active" /\ ~cur.l.state /\ ~cur.l.clear
    /\ IsValidHeater(cur.l.idx) /\ obs.heaters_status0
    /\ Idle /\ exc = "none" /\ Len(obs.wire) = 1

-----------------------------------------------------------------------------
(* Properties of the iteration index and of the deadline *)

\* C26: a loop() call that has returned normally, with consume True or
\* False, has added exactly one to i and has set t_end to the time of its
\* return plus the cadence.
C26_LoopAdvances ==
    cur.op = "loop" /\ Idle /\ lp.ended = "return" =>
        /\ i = lp.i0 + 1
        /\ t_end = now + cfg.loop_delay

\* a mistaken deadline that ignores the reference time
PrimedFromNow(ref, t, delay) == t + delay

\* lines 1273-1276
PrimedDeadline(ref, t, delay) == IF IsNone(ref) THEN t + delay ELSE Val(ref) + delay

FrPrepareTimer(ref) == Frame("prepare_initial_loop_timer", [ref |-> ref])

\* prepare_initial_loop_timer, lines 1267-1276
PrepareInitialLoopTimer ==
    /\ Running("prepare_initial_loop_timer")
    /\ t_end' = PrimedDeadline(Top.l.ref, now, cfg.loop_delay)
    /\ stack' = Pop
    /\ ret' = None
    /\ obs' = [obs EXCEPT !.pt.at = now]
    /\ UNCHANGED <<exc, now, alarm, upy_status, heaters_status, counters,
                   t_start_iter, dbg, mem_usage, samples, caller>>

MaxWait == 12       \* ticks the caller may let pass, more than one cadence

\* reference times a caller passes: none, the construction, a later time
TimerRefs == {None, Some(0), Some(25)}

\* the caller calls prepare_initial_loop_timer(ref)
CallPrepareTimer ==
    /\ Idle
    /\ calls < MaxCalls
    /\ \E ref \in TimerRefs :
         /\ stack' = <<FrPrepareTimer(ref)>>
         /\ cur' = [op |-> "prepare_initial_loop_timer", l |-> [ref |-> ref]]
    /\ obs' = [ObsCall(obs) EXCEPT !.pt = [counters0 |-> counters,
                                           samples0 |-> samples, at |-> 0]]
    /\ calls' = calls + 1
    /\ exc' = "none"
    /\ ret' = None
    /\ UNCHANGED <<now, alarm, upy_status, heaters_status, counters, timer,
                   dbg, mem_usage, samples, cfg, board>>

\* time passes between the construction of the handle and the caller's
\* calls (the case the docstring names, lines 1268-1272)
Wait ==
    /\ Idle
    /\ now < MaxWait
    /\ now' = now + 1
    /\ UNCHANGED <<stack, exc, ret, alarm, upy_status, heaters_status, counters,
                   timer, dbg, mem_usage, samples, caller, obs>>

NextTimer ==
    \/ CallPrepareTimer
    \/ PrepareInitialLoopTimer
    \/ Wait

SpecTimer == InitLoop /\ [][NextTimer]_vars

\* C28: prepare_initial_loop_timer(ref) sets t_end to ref plus the cadence,
\* or to the current time plus the cadence when ref is None; it sends no
\* command and leaves i, the counters and the sample flags as they were.
C28_TimerPrimedOnly ==
    cur.op = "prepare_initial_loop_timer" /\ stack = <<>> =>
        /\ exc = "none"
        /\ t_end = (IF IsNone(cur.l.ref) THEN obs.pt.at ELSE Val(cur.l.ref))
                     + cfg.loop_delay
        /\ counters = obs.pt.counters0
        /\ samples = obs.pt.samples0
        /\ obs.se.sent = 0 /\ obs.wire = <<>> /\ se.outcome = "none"

\* the deadline was re-anchored to the current time, after a wait
C28_Witness ==
    /\ cur.op = "prepare_initial_loop_timer" /\ stack = <<>>
    /\ IsNone(cur.l.ref) /\ obs.pt.at > 0 /\ t_end = obs.pt.at + cfg.loop_delay

-----------------------------------------------------------------------------
(* Properties of the memory status *)

\* the exchanges of the memory query made so far by a safe_exec_abc on the
\* stack
MemQueriesInFlight ==
    {stack[k].l.sent : k \in {j \in DOMAIN stack : /\ stack[j].pc \in SafeExecLabels
                                                   /\ stack[j].l.cmd = CmdMemStatus}}

\* C29: get_mem_status sends its query straight to the transport, exactly
\* once per call: a reply that holds the collector's marker is not retried
\* and is not turned into ABCGarbledRespError by the retry loop of
\* safe_exec_abc; gc.collect() too is sent straight, exactly once.
C29_MemQueryBypassesRetry ==
    cur.op = "check_mem_maybe_gcollect" =>
        /\ \A n \in MemQueriesInFlight : n <= 1
        /\ se.outcome # "none" /\ se.cmd = CmdMemStatus =>
              se.sent = 1 /\ se.outcome = "return"
        /\ cm.outcome # "none" => cm.gc_sent <= 1 /\ (cm.value => cm.gc_sent = 1)

\* C30: get_mem_status ends with ABCGarbledRespError and with no other
\* exception when the reply does not split into exactly two integers, and
\* then leaves _mem_usage as it was; when it succeeds the stored status has
\* total = free + alloc.
C30_MemStatusGarbledOnly ==
    cur.op = "get_mem_status" /\ Idle =>
        /\ exc \in {"none", Garbled}
        /\ exc = "none" =>
              /\ mem_usage = ret
              /\ mem_usage.total = mem_usage.free + mem_usage.alloc
        /\ exc # "none" => mem_usage = obs.mem0

-----------------------------------------------------------------------------
(* Properties of the initialisation of the heaters *)

\* the frames of a memory check: check_mem_maybe_gcollect, get_mem_status
MemCheckLabels == CheckMemLabels \cup {"get_mem_status", "get_mem_status.resp"}

\* C31: in a run of heaters_ini that began with heaters_status False the
\* memory check is made once, before the first deactivation: none is made
\* while a deactivation or the global enable is being executed.
C31_MemCheckOnceUpFront ==
    cur.op = "heaters_ini" /\ ~obs.heaters_status0 =>
        \A k \in DOMAIN stack :
          stack[k].pc \in {"heaters_ini.sleep", "heaters_ini.done"} =>
            \A j \in (k + 1)..Len(stack) : stack[j].pc \notin MemCheckLabels

-----------------------------------------------------------------------------
(* Properties of the order of an iteration *)

\* the frame of loop() on the stack, if there is one
LoopFrames == {k \in DOMAIN stack : stack[k].pc \in LoopLabels}

\* within one loop() iteration: the classes fetched so far are the first of
\* the enabled ones, in order; the clock check has begun only after the
\* last of them and loop() never goes back to the sensors after it; the
\* idle time is consumed only after the clock check
IterationInOrder ==
    /\ IsPrefix(lp.fetched, EnabledClasses)
    /\ lp.clock => lp.fetched = EnabledClasses
    /\ lp.clock => \A k \in LoopFrames : stack[k].pc \in {"loop.clock", "loop.consume"}
    /\ co.done => lp.clock
    /\ \A k \in LoopFrames :
          /\ stack[k].pc = "loop.consume" => lp.clock
          /\ stack[k].pc = "loop.clock" => lp.fetched = EnabledClasses

\* C32: in one loop() iteration the enabled classes are fetched in the
\* order tmp, pwr, rht, co2, htr, a disabled class is skipped, the clock
\* check runs once, after the last class, the sleep comes after the clock
\* check, and no fetch of the next iteration starts before the iteration
\* has finished its sleep.
C32_IterationOrdered ==
    cur.op \in {"loop", "main"} =>
        /\ IterationInOrder
        /\ lp.fetched # <<>> => ~run.unslept

-----------------------------------------------------------------------------
(* Properties of the connection timeout *)

InUpyIni == \E k \in DOMAIN stack : stack[k].pc \in UpyIniLabels

\* C33: the timeout can interrupt only while upy_ini executes: once upy_ini
\* has ended, by returning or by raising, no alarm is armed any more, and so
\* no later command is aborted by TimedOutException
C33_AlarmOnlyInsideUpyIni ==
    ~InUpyIni => IsNone(alarm)

-----------------------------------------------------------------------------
(* Properties of the fresh-data flags and the warning counters *)

ClassSet == {Classes[k] : k \in DOMAIN Classes}

\* the CO2 reply whose validity word is False
InvalidCo2Reply ==
    Formatted(<<<<DateLex>>, <<NumLex>>, <<NumLex>>, <<NumLex>>, <<FalseLex>>>>)

SampleReplies(c) ==
    {GoodReply(c), NoticedReply(c), HalfNoticedReply(c)}
    \cup (CASE c = "co2" -> {InvalidCo2Reply}
            [] c = "htr" -> {FewReply(c)}
            [] OTHER -> {CutReply(c)})

BoardSample ==
    [replies |-> [f \in CmdNames |->
                    IF f \in SensorNames THEN SampleReplies(ClassOf(f))
                    ELSE IF f = CmdMemStatus.f
                    THEN {<<"9000", " ", "1000", CRLF>>}
                    ELSE {<<>>}],
     durations |-> [f \in CmdNames |-> {0}],
     enter |-> {"ok"},
     db |-> {TRUE, FALSE},
     file |-> {TRUE}]

InitSample == InitWith(BoardSample, [Conf EXCEPT !.log2db = TRUE])

\* sample_<class>_sensors called by the user, any class, session open or not
CallSampleAny == \E c \in ClassSet : Call(FrSample(c))

NextSample ==
    \/ CallSampleAny
    \/ UpyIniStart
    \/ UpyIniEnter
    \/ UpyIniImport
    \/ SafeExecWatermark
    \/ SafeExecTry
    \/ GetMemStatusCall
    \/ GetMemStatusParse
    \/ CheckMemCall
    \/ CheckMemDecide
    \/ GetSensorStart
    \/ GetSensorExec
    \/ GetSensorParse
    \/ SampleFetch
    \/ SampleLog
    \/ DumpPoint
    \/ SampleFlag
    \/ Unwind

SpecSample == InitSample /\ [][NextSample]_vars

\* class c is being fetched: its getter has cleared the flag and has not
\* yet parsed the reply
Fetching(c) ==
    \E k \in DOMAIN stack :
       stack[k].pc \in {"get_sensor.con", "get_sensor.resp"} /\ stack[k].l.c = c

\* the getter of class c, called by sample_<c>_sensors, is being left by a
\* communication error
FetchFailed(c) ==
    /\ exc \in {TooShort, Garbled}
    /\ Len(stack) > 0
    /\ Top.pc = "sample_sensors.got" /\ Top.l.c = c

\* the step of sample_<c>_sensors that looks at the flag
Consuming(c) == Running("sample_sensors.flag") /\ Top.l.c = c

\* C34: for every sensor class the fresh-data flag is cleared when a fetch
\* starts, becomes True only when a fetch has parsed its reply successfully,
\* and is False again once sample_<class>_sensors has looked at it; a fetch
\* that raises ABCTooShortRespError or ABCGarbledRespError leaves it False.
\* The class's BackoffCtr is reset exactly when fresh data is consumed and
\* hit exactly when sample_<class>_sensors completes without fresh data.
C34_FreshFlagAndCounter ==
    [][\A c \in ClassSet :
         /\ (Running("get_sensor") /\ Top.l.c = c) => ~newdata2csv'[c]
         /\ Fetching(c)' => ~newdata2csv'[c]
         /\ FetchFailed(c)' => ~newdata2csv'[c]
         /\ (~newdata2csv[c] /\ newdata2csv'[c]) =>
               /\ Running("get_sensor.resp") /\ Top.l.c = c
               /\ exc' = "none"
               /\ ParseSensor(c, FindAll(SensorText(c, ret))) = "ok"
         /\ Consuming(c) =>
               /\ ~newdata2csv'[c]
               /\ cntr_wrn'[c] = IF newdata2csv[c]
                                 THEN [n |-> 0, cur_level |-> 1]
                                 ELSE Hit(cntr_wrn[c], 1, 360)
         /\ cntr_wrn'[c] # cntr_wrn[c] => Consuming(c)
      ]_vars

\* a class whose counter has been hit is sampled again, its getter has
\* parsed fresh data and sample_<class>_sensors is about to consume it
C34_Witness ==
    \E c \in ClassSet :
       /\ Consuming(c) /\ newdata2csv[c]
       /\ cntr_wrn[c] # [n |-> 0, cur_level |-> 1]

-----------------------------------------------------------------------------
(* Properties of the configured-active vector *)

\* heaters_active / heater_targets of the configuration file: none, two
\* heaters, one heater and an index the board does not have
ActiveSamples ==
    {[hi \in {} |-> 0], [hi \in {2, 5} |-> 30 + hi], [hi \in {0, 12} |-> 3]}

\* a board that answers the heater commands cleanly and reports the
\* heaters' statuses as on, as off, with nine temperatures only, with a
\* collector notice or with text for a number
BoardActive ==
    [replies |-> [f \in CmdNames |->
                    IF f = SensorCmd("htr").f
                    THEN {GoodReply("htr"), IdleReply, FewReply("htr"),
                          NoticedReply("htr"), TextReply("htr")}
                    ELSE IF f = CmdMemStatus.f
                    THEN {<<"1", " ", "2", CRLF>>}
                    ELSE {<<>>}],
     durations |-> [f \in CmdNames |-> {0}],
     enter |-> {"ok"},
     db |-> {TRUE},
     file |-> {TRUE}]

InitActive ==
    \E a \in ActiveSamples : InitWith(BoardActive, [Conf EXCEPT !.active_heaters = a])

NextActive ==
    \/ CallHeatersIni
    \/ CallGetHeatersStatus
    \/ CallSetHeaterActive
    \/ CallHeaterActivate
    \/ CallDeactivateAll
    \/ UpyIniStart
    \/ UpyIniEnter
    \/ UpyIniImport
    \/ SafeExecWatermark
    \/ SafeExecTry
    \/ GetMemStatusCall
    \/ GetMemStatusParse
    \/ CheckMemCall
    \/ CheckMemDecide
    \/ CheckMemCollect
    \/ GetSensorStart
    \/ GetSensorExec
    \/ GetSensorParse
    \/ HeatersIniStart
    \/ HeatersIniMem
    \/ HeatersIniLoop
    \/ HeatersIniSleep
    \/ HeatersIniDone
    \/ AccessorStart
    \/ AccessorStatus
    \/ AccessorGarbled
    \/ AccessorPick
    \/ SetHeaterStart
    \/ SetHeaterState
    \/ SetHeaterObjective
    \/ SetHeaterOn
    \/ SetHeaterOff
    \/ HeaterActivateStart
    \/ HeaterActivateDecide
    \/ HeaterActivateDone
    \/ DeactivateAllLoop
    \/ DeactivateAllSleep
    \/ DeactivateAllDisable
    \/ DeactivateAllDone
    \/ DisableGlobalExec
    \/ DisableGlobalDone
    \/ ResetObjectivesExec
    \/ ResetObjectivesDone
    \/ Unwind

SpecActive == InitActive /\ [][NextActive]_vars

\* get_heaters_status, called by the user, has returned its five vectors
StatusReturned ==
    /\ Idle /\ exc = "none"
    /\ cur.op = "get_sensor" /\ cur.l.c = "htr"
    /\ ret # None /\ ret.out = "ok"

\* C35: the fifth vector returned by get_heaters_status is made from the
\* host's configuration alone: its entry for heater hi is 1 exactly when hi
\* is one of active_heaters, whatever heater call went before and whatever
\* the board reported
C35_ConfiguredActiveFromConfig ==
    StatusReturned =>
        /\ ret.h_on # None
        /\ DOMAIN Val(ret.h_on) = 1..NUM_HEATERS
        /\ \A hi \in 0..(NUM_HEATERS - 1) :
              Val(ret.h_on)[hi + 1] = 1 <=> hi \in DOMAIN cfg.active_heaters
        /\ \A hi \in 0..(NUM_HEATERS - 1) : Val(ret.h_on)[hi + 1] \in {0, 1}

\* heaters 2 and 5 are configured, a heater call has initialised the
\* heaters, and the board reports every heater as off
C35_Witness ==
    /\ StatusReturned /\ calls = 2 /\ heaters_status
    /\ DOMAIN cfg.active_heaters = {2, 5}
    /\ ret.m = FindAll(SensorText("htr", IdleReply))
    /\ Val(ret.h_on)[3] = 1 /\ Val(ret.h_on)[1] = 0

-----------------------------------------------------------------------------
(* Properties of the lazy initialisation of the heaters *)

\* the heater commands set_heater_active / set_heater_objective send for
\* themselves
OwnWire(op, l) ==
    IF op = "set_heater_objective" THEN <<CmdObjective(l.t, l.idx)>>
    ELSE IF l.state THEN <<CmdActivate(TRUE, l.idx)>>
    ELSE DeactivateWire(l)

C36_WitnessActive ==
    /\ cur.op = "set_heater_active" /\ cur.l.state /\ IsValidHeater(cur.l.idx)
    /\ ~obs.heaters_status0
    /\ Idle /\ exc = "none" /\ ret = TRUE /\ heaters_status
    /\ obs.wire = HeatersIniWire \o <<CmdActivate(TRUE, cur.l.idx)>>

-----------------------------------------------------------------------------
(* Properties of the session *)

\* C37: upy_ini sends its import and set-up commands only once the raw REPL
\* has been entered (upy_status True): when the three attempts to enter it
\* have failed no command goes to the board and upy_status stays False
C37_ImportsOnlyInSession ==
    cur.op = "upy_ini" /\ se.sent > 0 => upy_status

-----------------------------------------------------------------------------
(* Properties of a short reply to the clock query *)

\* the clock query of the iteration ended with ABCTooShortRespError
ClockReplyTooShort ==
    lp.clock /\ se.cmd = CmdGetDatetime /\ se.outcome = TooShort

\* C38: an ABCTooShortRespError raised while check_update_datetime reads
\* the board clock does not end loop(): the iteration returns normally,
\* having consumed its idle time (when consume is true), so that t_end is
\* one cadence after the wake time, and having incremented i
C38_ShortClockReplyNotFatal ==
    Idle /\ cur.op = "loop" /\ ClockReplyTooShort =>
        /\ exc = "none" /\ lp.ended = "return"
        /\ cur.l.consume => co.done /\ t_end = co.wake + cfg.loop_delay
        /\ i = lp.i0 + 1

-----------------------------------------------------------------------------
(* Properties of the two contamination checks *)

\* C39: contamination is decided once, by the executor: a reply that
\* safe_exec_abc has accepted is not rejected as contaminated by the getter
\* that asked for it, so that whenever a getter ends with
\* ABCGarbledRespError the command has been tried as often as configured
C39_ContaminationDecidedOnce ==
    \A c \in ClassSet :
       FetchFailed(c) /\ exc = Garbled =>
           /\ se.cmd = SensorCmd(c)
           /\ se.outcome = Garbled
           /\ se.sent = se.retries

-----------------------------------------------------------------------------
(* Properties of the retained response *)

\* the decoded text of the reply the executor read last
LastText == Replace(Val(se.last), CRLF, <<",">>)

\* C40: _last_pyb_resp and _last_pyb_fields describe the command executed
\* last: once safe_exec_abc has returned or raised ABCTooShortRespError they
\* hold that command's decoded text and its tokens, and once it has raised
\* ABCGarbledRespError _last_pyb_resp holds the last contaminated text of
\* that command
C40_DebugStateIsCurrent ==
    /\ se.outcome \in {"return", TooShort} =>
          last_pyb_resp = LastText /\ last_pyb_fields = FindAll(LastText)
    /\ se.outcome = Garbled => last_pyb_resp = LastText

-----------------------------------------------------------------------------
(* The default specification: the protocol executor and the memory check *)

Spec == SpecExec

====
